---- MODULE Spec2Model ----
(***************************************************************************)
(* zkLogin session management of the boar back end: the account store, the *)
(* HTTP controller operations of sui.controller.js (login, refresh,        *)
(* initialize-direct) and the library operations of sui.model.js           *)
(* (generateZkLoginData, refreshZkLogin, initializeDirectZkLogin).         *)
(*                                                                         *)
(* Every request is a process; it yields at each awaited store or network  *)
(* call, so the steps of different requests interleave there.  The store   *)
(* is the ZkLoginAccount collection: rows in insertion order, a unique     *)
(* index on the lower-cased email.                                         *)
(*                                                                         *)
(* Next to it: the startup connection of server.js and models/index.js     *)
(* with the mongoDbConnected setting, the exercise controller that is      *)
(* guarded by that setting, the error middleware and the transaction       *)
(* helpers.                                                                *)
(***************************************************************************)
EXTENDS Integers, Sequences, FiniteSets, TLC

VARIABLES production, accounts, clock, suiNodeUp, req,
          mongoDbConnected, connection, exercises, transactions

vars == <<production, accounts, clock, suiNodeUp, req,
          mongoDbConnected, connection, exercises, transactions>>

(***************************************************************************)
(* Bounds of the model.                                                    *)
(***************************************************************************)
MaxReq == 2
MaxClock == 1

Requests == 1..MaxReq

(***************************************************************************)
(* Program constants.                                                      *)
(***************************************************************************)
MAX_EPOCH_GAP == 2
FallbackEpoch == 1
MockMaxEpoch == 100
ConfigDefaultMaxEpoch == 10
MaxRetries == 5
RetryCount == 5
FirstDelay == 1000

None == "none"

(***************************************************************************)
(* Identity tokens.  A token is what split('.') / JSON.parse see of it:    *)
(* the number of dot-separated segments, whether the middle segment        *)
(* decodes to JSON, and the claims of the payload.                         *)
(***************************************************************************)
Subjects == {"s1", "s2"}

GoodToken(s) ==
    [present |-> TRUE, segments |-> 3, json |-> TRUE, sub |-> s,
     iss |-> "iss", aud |-> "aud"]

NoToken ==
    [present |-> FALSE, segments |-> 0, json |-> FALSE, sub |-> None,
     iss |-> None, aud |-> None]

TwoSegmentToken ==
    [present |-> TRUE, segments |-> 2, json |-> TRUE, sub |-> "s1",
     iss |-> "iss", aud |-> "aud"]

UndecodableToken ==
    [present |-> TRUE, segments |-> 3, json |-> FALSE, sub |-> None,
     iss |-> None, aud |-> None]

NoSubToken ==
    [present |-> TRUE, segments |-> 3, json |-> TRUE, sub |-> None,
     iss |-> "iss", aud |-> "aud"]

Tokens ==
    {GoodToken(s) : s \in Subjects}
        \cup {NoToken, TwoSegmentToken, UndecodableToken, NoSubToken}

MalformedTokens == {TwoSegmentToken, UndecodableToken, NoSubToken}

(***************************************************************************)
(* Emails.  The request carries an optional email and an optional          *)
(* googleUserId.                                                           *)
(***************************************************************************)
EmailInputs == {"a@x.com", "A@x.com", None}
GoogleIds == {None}

\* const userEmail = email || `google-${googleUserId}@example.com`
UserEmail(email, googleUserId) ==
    IF email # None THEN email
    ELSE IF googleUserId = None THEN "google-undefined@example.com"
    ELSE "google-g1@example.com"

\* schema option lowercase: true (the setter runs on stored values and on
\* query filters)
Lowercase(e) == IF e = "A@x.com" THEN "a@x.com" ELSE e

\* crypto.createHash('sha256').update(e).digest('hex'): one digest per input
Sha256(e) ==
    CASE e = "a@x.com" -> 1
      [] e = "A@x.com" -> 2
      [] e = "google-undefined@example.com" -> 3
      [] e = "google-g1@example.com" -> 4
      [] e = "anonymous-r1@example.com" -> 5
      [] e = "anonymous-r2@example.com" -> 6
      [] e = "anonymous-r1" -> 7
      [] e = "anonymous-r2" -> 8
      [] e = "b@x.com" -> 9
      [] OTHER -> 0

(***************************************************************************)
(* Salts, addresses and seeds.                                             *)
(***************************************************************************)
Nil == [kind |-> "nil"]

\* crypto.randomBytes(16).toString('hex'): a string of hex digits
RandomHex == {<<1, 2>>, <<3, 4>>, <<1, 10>>}

HexSalt(d) == [kind |-> "hex", digits |-> d]

\* BigInt(userSalt) of a string without 0x prefix: a decimal parse, which
\* throws SyntaxError on any other character
BigIntParses(salt) ==
    /\ salt.kind = "hex"
    /\ \A n \in DOMAIN salt.digits : salt.digits[n] < 10

\* jwtToAddress(jwt, userSalt)
JwtToAddress(tok, salt) ==
    [kind |-> "zk", iss |-> tok.iss, sub |-> tok.sub, aud |-> tok.aud,
     salt |-> salt.digits]

\* genAddressSeed(BigInt(userSalt), 'sub', sub, aud).toString()
GenAddressSeed(salt, name, value, aud) ==
    [kind |-> "seed", salt |-> salt.digits, name |-> name, value |-> value,
     aud |-> aud]

\* `0x${hash.substring(0, 20)}${'0'.repeat(44)}`
GenerateDeterministicAddress(identifier) ==
    [kind |-> "hash", h |-> Sha256(identifier)]

\* `dev_salt_${emailHash.substring(0, 8)}`, `dev_seed_${...}`
DevSalt(e) == [kind |-> "dev_salt", h |-> Sha256(e)]
DevSeed(e) == [kind |-> "dev_seed", h |-> Sha256(e)]

\* `direct_salt_${hash.substring(0, 8)}`, `direct_seed_${...}`
DirectSalt(e) == [kind |-> "direct_salt", h |-> Sha256(e)]
DirectSeed(e) == [kind |-> "direct_seed", h |-> Sha256(e)]

\* the literal "direct_placeholder"
DirectPlaceholder == [kind |-> "direct_placeholder"]

\* "0x" + crypto.randomBytes(32).toString('hex')
RandomAddresses == {[kind |-> "random", n |-> n] : n \in {1, 2}}

\* crypto.randomBytes(32).toString('hex') used as an address seed
RandomSeeds == {[kind |-> "random_seed", n |-> n] : n \in {1, 2}}

\* crypto.randomBytes(8).toString('hex')
RandomIds == {"r1", "r2"}

\* `anonymous-${randomId}@example.com`
AnonymousEmail(randomId) ==
    IF randomId = "r1" THEN "anonymous-r1@example.com"
    ELSE "anonymous-r2@example.com"

\* `anonymous-${crypto.randomBytes(8).toString('hex')}`
AnonymousIdentifier(randomId) ==
    IF randomId = "r1" THEN "anonymous-r1" ELSE "anonymous-r2"

(***************************************************************************)
(* The account store.                                                      *)
(***************************************************************************)
NoDoc ==
    [id |-> 0, provider |-> None, subjectId |-> None, email |-> None,
     suiAddress |-> Nil, userSalt |-> Nil, addressSeed |-> Nil,
     updatedAt |-> 0]

NewDoc(provider, subjectId, email, suiAddress, userSalt, addressSeed, now) ==
    [id |-> 0, provider |-> provider, subjectId |-> subjectId,
     email |-> Lowercase(email), suiAddress |-> suiAddress,
     userSalt |-> userSalt, addressSeed |-> addressSeed, updatedAt |-> now]

FirstOf(S) == IF S = {} THEN 0 ELSE CHOOSE k \in S : \A j \in S : k <= j

\* ZkLoginAccount.findOne({ provider, subjectId })
FindByIdentity(rows, iss, sub) ==
    FirstOf({k \in 1..Len(rows) :
                rows[k].provider = iss /\ rows[k].subjectId = sub})

\* ZkLoginAccount.findOne({ email })
FindByEmail(rows, email) ==
    FirstOf({k \in 1..Len(rows) : rows[k].email = Lowercase(email)})

\* ZkLoginAccount.findOne({ suiAddress })
FindByAddress(rows, address) ==
    FirstOf({k \in 1..Len(rows) : rows[k].suiAddress = address})

DocAt(rows, k) == IF k = 0 THEN NoDoc ELSE rows[k]

\* a store without the unique index on email: no insert is rejected
DuplicateKeyNoIndex(rows, doc) == FALSE

\* the unique index on email rejects the insert of a second row
DuplicateKey(rows, doc) == \E k \in 1..Len(rows) : rows[k].email = doc.email

InsertDoc(rows, doc) == Append(rows, [doc EXCEPT !.id = Len(rows) + 1])

\* a save() that takes the loaded document out of the collection
UpdateDocRemoves(rows, snapshot, doc) ==
    SelectSeq(rows, LAMBDA x : x.id # doc.id)

\* save() of a loaded document writes the paths whose value differs from
\* the loaded one
UpdateDoc(rows, snapshot, doc) ==
    [rows EXCEPT ![doc.id] =
        [@ EXCEPT
            !.suiAddress = IF doc.suiAddress # snapshot.suiAddress
                           THEN doc.suiAddress ELSE @,
            !.userSalt = IF doc.userSalt # snapshot.userSalt
                         THEN doc.userSalt ELSE @,
            !.addressSeed = IF doc.addressSeed # snapshot.addressSeed
                            THEN doc.addressSeed ELSE @,
            !.updatedAt = IF doc.updatedAt # snapshot.updatedAt
                          THEN doc.updatedAt ELSE @]]

\* a response without authToken
NoAuthToken == [email |-> None, address |-> Nil, sub |-> None]

(***************************************************************************)
(* Requests.                                                               *)
(***************************************************************************)
NoResp ==
    [status |-> 0, success |-> FALSE, error |-> None, address |-> Nil,
     userSalt |-> Nil, addressSeed |-> Nil, maxEpoch |-> 0,
     zkProof |-> None, kind |-> "json", authToken |-> NoAuthToken]

\* res.status(status).send({success: false, ...}); the library operations
\* return {success: false, error} and have no status (0)
Failure(status, error) ==
    [NoResp EXCEPT !.status = status, !.error = error]

\* the session payload {success: true, address, authToken, zkProof}
Success(status, address, userSalt, addressSeed, maxEpoch) ==
    [status |-> status, success |-> TRUE, error |-> None,
     address |-> address, userSalt |-> userSalt,
     addressSeed |-> addressSeed, maxEpoch |-> maxEpoch,
     zkProof |-> None, kind |-> "json", authToken |-> NoAuthToken]

\* authToken: Buffer.from(JSON.stringify({email, suiAddress | address,
\* sub?, ...})).toString('base64'), as the record it decodes to; sub is
\* None where the handler does not put a subject into the token
Signed(resp, email, address, sub) ==
    [resp EXCEPT !.authToken =
        [email |-> email, address |-> address, sub |-> sub]]

\* the operation ends with an exception that propagates to its caller; no
\* value is returned
Thrown(error) ==
    [NoResp EXCEPT !.error = error, !.kind = "thrown"]

\* app.get('mongoDbConnected'): undefined until connectToMongoDB sets it
FlagUnset == "undefined"
FlagTrue == "true"
FlagFalse == "false"

\* the locals of connectToMongoDB (retries) and connectWithRetry (i,
\* delay, lastError), with the number of db.connect() calls and of
\* mongoose.connect() attempts made so far and the error that the last
\* db.connect() has thrown; an error is named by the number of the attempt
\* that raised it, 0 is no error
NoStartup ==
    [retries |-> 0, i |-> 0, delay |-> 0, calls |-> 0, attempts |-> 0,
     connected |-> FALSE, lastError |-> 0, thrown |-> 0]

\* the input and the returned value of the operations outside zkLogin
NoArg == [kind |-> "none"]
NoOut == [kind |-> "none"]

IdleReq ==
    [pc |-> "idle", op |-> None, token |-> NoToken, userEmail |-> None,
     address |-> Nil, found |-> NoDoc, doc |-> NoDoc, userSalt |-> Nil,
     epoch |-> 0, proofInput |-> None, proverCalls |-> 0,
     storeFailed |-> FALSE, anonymous |-> FALSE, sent |-> 0,
     logged |-> {}, startup |-> NoStartup, resp |-> NoResp,
     arg |-> NoArg, out |-> NoOut]

\* the request sends its response (or returns its result) and ends; its
\* locals are dropped
Respond(r, resp) ==
    [r EXCEPT !.pc = "done", !.found = NoDoc, !.doc = NoDoc,
              !.userSalt = Nil, !.epoch = 0, !.resp = resp,
              !.sent = IF resp.kind = "thrown" THEN @ ELSE @ + 1]

\* requests are numbered in the order in which they arrive
Arrives(i) ==
    /\ req[i].pc = "idle"
    /\ i > 1 => req[i - 1].pc # "idle"

\* the epoch the Sui node reports while it answers
NetworkEpoch == 7

\* getLatestSuiSystemState(): the epoch of the network, or the fallback
\* epoch when the query fails
EpochOutcomes == IF suiNodeUp THEN {NetworkEpoch} ELSE {FallbackEpoch}

Init ==
    /\ production \in BOOLEAN
    /\ accounts = <<>>
    /\ clock = 0
    /\ suiNodeUp = TRUE
    /\ req = [i \in Requests |-> IdleReq]
    /\ mongoDbConnected = FlagUnset
    /\ connection = "disconnected"
    /\ exercises = <<>>
    /\ transactions = <<>>

\* the Sui node stops or resumes answering
SuiNodeChange ==
    /\ suiNodeUp' = ~suiNodeUp
    /\ UNCHANGED <<production, accounts, clock, req,
                   mongoDbConnected, connection, exercises, transactions>>

\* time passes
Tick ==
    /\ clock < MaxClock
    /\ clock' = clock + 1
    /\ UNCHANGED <<production, accounts, suiNodeUp, req,
                   mongoDbConnected, connection, exercises, transactions>>


(***************************************************************************)
(* handleZkLogin (controller)                                              *)
(***************************************************************************)
\* entry up to the first awaited call
HandleZkLogin(i, tokens, emails) ==
    /\ Arrives(i)
    /\ \E tok \in tokens, email \in emails, gid \in GoogleIds :
         LET r == [IdleReq EXCEPT !.op = "login", !.token = tok,
                                  !.userEmail = UserEmail(email, gid)]
         IN  req' = [req EXCEPT ![i] =
                 IF ~tok.present
                     THEN Respond(r, Failure(400, "empty_token"))
                 ELSE IF ~production THEN [r EXCEPT !.pc = "dev_find"]
                 ELSE IF tok.segments # 3
                     THEN Respond(r, Failure(400, "invalid_jwt"))
                 ELSE IF ~tok.json
                     THEN Respond(r, Failure(500, "exception"))
                 ELSE IF tok.sub = None
                     THEN Respond(r, Failure(400, "missing_sub"))
                 ELSE [r EXCEPT !.pc = "login_find"]]
    /\ UNCHANGED <<production, accounts, clock, suiNodeUp,
                   mongoDbConnected, connection, exercises, transactions>>

\* findOne({provider: iss, subjectId: sub}) returns; the salt is resolved,
\* and a newly drawn salt is written to the log
LoginFindOne(i) ==
    /\ req[i].pc = "login_find"
    /\ LET r == req[i]
           k == FindByIdentity(accounts, r.token.iss, r.token.sub)
       IN  IF k # 0
           THEN req' = [req EXCEPT ![i] =
                    [r EXCEPT !.pc = "login_epoch", !.found = accounts[k],
                              !.userSalt = accounts[k].userSalt]]
           ELSE \E d \in RandomHex :
                  req' = [req EXCEPT ![i] =
                      [r EXCEPT !.pc = "login_epoch",
                                !.userSalt = HexSalt(d),
                                !.logged = @ \cup {"userSalt"}]]
    /\ UNCHANGED <<production, accounts, clock, suiNodeUp,
                   mongoDbConnected, connection, exercises, transactions>>

\* getLatestSuiSystemState() returns; seed and address are derived, the
\* account document is prepared and save() is issued
LoginEpoch(i) ==
    /\ req[i].pc = "login_epoch"
    /\ \E e \in EpochOutcomes :
         LET r == req[i]
             tok == r.token
             suiAddress == JwtToAddress(tok, r.userSalt)
             addressSeed == GenAddressSeed(r.userSalt, "sub", tok.sub, tok.aud)
         IN  req' = [req EXCEPT ![i] =
                 IF ~BigIntParses(r.userSalt)
                     THEN Respond(r, Failure(500, "exception"))
                 ELSE IF r.found.id # 0
                 THEN [r EXCEPT !.pc = "login_save", !.epoch = e,
                                !.doc = [r.found EXCEPT
                                            !.suiAddress = suiAddress,
                                            !.updatedAt = clock]]
                 ELSE [r EXCEPT !.pc = "login_save", !.epoch = e,
                                !.doc = NewDoc(tok.iss, tok.sub, r.userEmail,
                                               suiAddress, r.userSalt,
                                               addressSeed, clock)]]
    /\ UNCHANGED <<production, accounts, clock, suiNodeUp,
                   mongoDbConnected, connection, exercises, transactions>>

\* save() completes; the session payload is sent
LoginSave(i) ==
    /\ req[i].pc = "login_save"
    /\ LET r == req[i]
           ok == Signed(Success(200, r.doc.suiAddress, r.userSalt,
                         GenAddressSeed(r.userSalt, "sub", r.token.sub,
                                        r.token.aud),
                         r.epoch + MAX_EPOCH_GAP),
                        r.userEmail, r.doc.suiAddress, r.token.sub)
       IN  IF r.found.id # 0
           THEN /\ accounts' = UpdateDoc(accounts, r.found, r.doc)
                /\ req' = [req EXCEPT ![i] = Respond(r, ok)]
           ELSE IF DuplicateKey(accounts, r.doc)
           THEN /\ accounts' = accounts
                /\ req' = [req EXCEPT ![i] =
                       Respond(r, Failure(500, "exception"))]
           ELSE /\ accounts' = InsertDoc(accounts, r.doc)
                /\ req' = [req EXCEPT ![i] = Respond(r, ok)]
    /\ UNCHANGED <<production, clock, suiNodeUp,
                   mongoDbConnected, connection, exercises, transactions>>

(***************************************************************************)
(* handleDevZkLogin (controller)                                           *)
(***************************************************************************)
\* findOne({email}) returns; the document is prepared and save() is issued
DevFindOne(i) ==
    /\ req[i].pc = "dev_find"
    /\ LET r == req[i]
           k == FindByEmail(accounts, r.userEmail)
           found == DocAt(accounts, k)
           mockAddress == GenerateDeterministicAddress(r.userEmail)
       IN  req' = [req EXCEPT ![i] =
               [r EXCEPT !.pc = "dev_save", !.found = found,
                         !.doc = IF k # 0
                                 THEN [found EXCEPT
                                     !.suiAddress = mockAddress,
                                     !.userSalt = DevSalt(r.userEmail),
                                     !.addressSeed = DevSeed(r.userEmail),
                                     !.updatedAt = clock]
                                 ELSE NewDoc("dev", r.userEmail, r.userEmail,
                                     mockAddress, DevSalt(r.userEmail),
                                     DevSeed(r.userEmail), clock)]]
    /\ UNCHANGED <<production, accounts, clock, suiNodeUp,
                   mongoDbConnected, connection, exercises, transactions>>

\* save() completes; the mock payload is sent
DevSave(i) ==
    /\ req[i].pc = "dev_save"
    /\ LET r == req[i]
           ok == Signed(Success(200, GenerateDeterministicAddress(r.userEmail),
                         DevSalt(r.userEmail), DevSeed(r.userEmail),
                         MockMaxEpoch),
                        r.userEmail, GenerateDeterministicAddress(r.userEmail), None)
       IN  IF r.found.id # 0
           THEN /\ accounts' = UpdateDoc(accounts, r.found, r.doc)
                /\ req' = [req EXCEPT ![i] = Respond(r, ok)]
           ELSE IF DuplicateKey(accounts, r.doc)
           THEN /\ accounts' = accounts
                /\ req' = [req EXCEPT ![i] =
                       Respond(r, Failure(500, "exception"))]
           ELSE /\ accounts' = InsertDoc(accounts, r.doc)
                /\ req' = [req EXCEPT ![i] = Respond(r, ok)]
    /\ UNCHANGED <<production, clock, suiNodeUp,
                   mongoDbConnected, connection, exercises, transactions>>

(***************************************************************************)
(* generateZkLoginData (sui.model.js)                                      *)
(***************************************************************************)
\* entry up to the first awaited call
GenerateZkLoginData(i, tokens, emails) ==
    /\ Arrives(i)
    /\ \E tok \in tokens, email \in emails, gid \in GoogleIds :
         LET r == [IdleReq EXCEPT !.op = "generateZkLoginData",
                                  !.token = tok,
                                  !.userEmail = UserEmail(email, gid)]
         IN  req' = [req EXCEPT ![i] =
                 IF ~tok.present
                     THEN Respond(r, Failure(0, "exception"))
                 ELSE IF tok.segments # 3
                     THEN Respond(r, Failure(0, "invalid_jwt"))
                 ELSE IF ~tok.json
                     THEN Respond(r, Failure(0, "exception"))
                 ELSE IF tok.sub = None
                     THEN Respond(r, Failure(0, "missing_sub"))
                 ELSE IF ~production THEN [r EXCEPT !.pc = "gen_dev_find"]
                 ELSE [r EXCEPT !.pc = "gen_find"]]
    /\ UNCHANGED <<production, accounts, clock, suiNodeUp,
                   mongoDbConnected, connection, exercises, transactions>>

\* development branch: findOne({email}) returns, save() is issued
GenDevFindOne(i) ==
    /\ req[i].pc = "gen_dev_find"
    /\ LET r == req[i]
           k == FindByEmail(accounts, r.userEmail)
           found == DocAt(accounts, k)
           mockAddress == GenerateDeterministicAddress(r.userEmail)
       IN  req' = [req EXCEPT ![i] =
               [r EXCEPT !.pc = "gen_dev_save", !.found = found,
                         !.doc = IF k # 0
                                 THEN [found EXCEPT
                                     !.suiAddress = mockAddress,
                                     !.userSalt = DevSalt(r.userEmail),
                                     !.addressSeed = DevSeed(r.userEmail),
                                     !.updatedAt = clock]
                                 ELSE NewDoc(r.token.iss, r.token.sub,
                                     r.userEmail, mockAddress,
                                     DevSalt(r.userEmail),
                                     DevSeed(r.userEmail), clock)]]
    /\ UNCHANGED <<production, accounts, clock, suiNodeUp,
                   mongoDbConnected, connection, exercises, transactions>>

\* development branch: save() completes or throws (the error is logged and
\* dropped); the mock payload is returned
GenDevSave(i) ==
    /\ req[i].pc = "gen_dev_save"
    /\ LET r == req[i]
           ok == Signed(Success(0, GenerateDeterministicAddress(r.userEmail),
                         DevSalt(r.userEmail), DevSeed(r.userEmail),
                         MockMaxEpoch),
                        r.userEmail, GenerateDeterministicAddress(r.userEmail), None)
       IN  /\ accounts' =
                 IF r.found.id # 0 THEN UpdateDoc(accounts, r.found, r.doc)
                 ELSE IF DuplicateKey(accounts, r.doc) THEN accounts
                 ELSE InsertDoc(accounts, r.doc)
           /\ req' = [req EXCEPT ![i] = Respond(r, ok)]
    /\ UNCHANGED <<production, clock, suiNodeUp,
                   mongoDbConnected, connection, exercises, transactions>>

\* production branch: findOne({provider, subjectId}) returns; salt,
\* address and seed are computed and save() is issued
GenFindOne(i) ==
    /\ req[i].pc = "gen_find"
    /\ LET r == req[i]
           tok == r.token
           k == FindByIdentity(accounts, tok.iss, tok.sub)
           found == DocAt(accounts, k)
       IN  \E d \in (IF k # 0 THEN {<<>>} ELSE RandomHex) :
             LET userSalt == IF k # 0 THEN found.userSalt ELSE HexSalt(d)
                 suiAddress == JwtToAddress(tok, userSalt)
                 addressSeed ==
                     GenAddressSeed(userSalt, "sub", tok.sub, tok.aud)
             IN  req' = [req EXCEPT ![i] =
                     IF ~BigIntParses(userSalt)
                         THEN Respond(r, Failure(0, "exception"))
                     ELSE [r EXCEPT
                         !.pc = "gen_save", !.found = found,
                         !.userSalt = userSalt,
                         !.doc = IF k # 0
                                 THEN [found EXCEPT
                                          !.suiAddress = suiAddress,
                                          !.updatedAt = clock]
                                 ELSE NewDoc(tok.iss, tok.sub, r.userEmail,
                                             suiAddress, userSalt,
                                             addressSeed, clock)]]
    /\ UNCHANGED <<production, accounts, clock, suiNodeUp,
                   mongoDbConnected, connection, exercises, transactions>>

\* production branch: save() completes
GenSave(i) ==
    /\ req[i].pc = "gen_save"
    /\ LET r == req[i]
       IN  IF r.found.id # 0
           THEN /\ accounts' = UpdateDoc(accounts, r.found, r.doc)
                /\ req' = [req EXCEPT ![i] = [r EXCEPT !.pc = "gen_epoch"]]
           ELSE IF DuplicateKey(accounts, r.doc)
           THEN /\ accounts' = accounts
                /\ req' = [req EXCEPT ![i] =
                       Respond(r, Failure(0, "exception"))]
           ELSE /\ accounts' = InsertDoc(accounts, r.doc)
                /\ req' = [req EXCEPT ![i] = [r EXCEPT !.pc = "gen_epoch"]]
    /\ UNCHANGED <<production, clock, suiNodeUp,
                   mongoDbConnected, connection, exercises, transactions>>

\* production branch: getLatestSuiSystemState() returns; the payload is
\* returned
GenEpoch(i) ==
    /\ req[i].pc = "gen_epoch"
    /\ \E e \in EpochOutcomes :
         LET r == req[i]
         IN  req' = [req EXCEPT ![i] =
                 Respond(r, Signed(Success(0, r.doc.suiAddress, r.userSalt,
                                    GenAddressSeed(r.userSalt, "sub",
                                                   r.token.sub, r.token.aud),
                                    e + MAX_EPOCH_GAP),
                                   r.userEmail, r.doc.suiAddress, r.token.sub))]
    /\ UNCHANGED <<production, accounts, clock, suiNodeUp,
                   mongoDbConnected, connection, exercises, transactions>>

(***************************************************************************)
(* handleZkLoginRefresh (controller)                                       *)
(***************************************************************************)
\* an address no operation produces
UnknownAddress == [kind |-> "hash", h |-> 0]

\* the empty suiAddress of a request body
EmptyAddress == [kind |-> "empty"]

\* the addresses a client sends: one it was given, or another one
AddressInputs(rows) ==
    {rows[k].suiAddress : k \in 1..Len(rows)}
        \cup {UnknownAddress, EmptyAddress}

\* entry up to the first awaited call
HandleZkLoginRefresh(i, tokens) ==
    /\ Arrives(i)
    /\ \E tok \in tokens, address \in AddressInputs(accounts) :
         LET r == [IdleReq EXCEPT !.op = "refresh", !.token = tok,
                                  !.address = address]
         IN  req' = [req EXCEPT ![i] =
                 IF address = EmptyAddress
                     THEN Respond(r, Failure(400, "empty_address"))
                 ELSE [r EXCEPT !.pc = "refresh_find"]]
    /\ UNCHANGED <<production, accounts, clock, suiNodeUp,
                   mongoDbConnected, connection, exercises, transactions>>

\* a lookup that answers with a payload when no account matches
RefreshFindOneLenient(i) ==
    /\ req[i].pc = "refresh_find"
    /\ LET r == req[i]
           k == FindByAddress(accounts, r.address)
           zkAccount == DocAt(accounts, k)
       IN  req' = [req EXCEPT ![i] =
               IF k = 0 \/ ~production \/ zkAccount.provider = "dev"
                   THEN Respond(r, Signed(Success(200, r.address,
                                           zkAccount.userSalt,
                                           zkAccount.addressSeed,
                                           MockMaxEpoch),
                                          zkAccount.email, r.address, None))
               ELSE IF ~r.token.present
                   THEN Respond(r, Failure(400, "token_required"))
               ELSE IF r.token.segments # 3
                   THEN Respond(r, Failure(400, "invalid_jwt"))
               ELSE IF ~r.token.json
                   THEN Respond(r, Failure(500, "exception"))
               ELSE IF r.token.sub # zkAccount.subjectId
                   THEN Respond(r, Failure(403, "mismatch"))
               ELSE [r EXCEPT !.pc = "refresh_epoch", !.found = zkAccount]]
    /\ UNCHANGED <<production, accounts, clock, suiNodeUp,
                   mongoDbConnected, connection, exercises, transactions>>

\* findOne({suiAddress}) returns; the development payload is sent, or the
\* token is checked and the epoch is requested
RefreshFindOne(i) ==
    /\ req[i].pc = "refresh_find"
    /\ LET r == req[i]
           tok == r.token
           k == FindByAddress(accounts, r.address)
           zkAccount == DocAt(accounts, k)
       IN  req' = [req EXCEPT ![i] =
               IF k = 0 THEN Respond(r, Failure(404, "not_found"))
               ELSE IF ~production \/ zkAccount.provider = "dev"
                   THEN Respond(r, Signed(Success(200, zkAccount.suiAddress,
                                           zkAccount.userSalt,
                                           zkAccount.addressSeed,
                                           MockMaxEpoch),
                                          zkAccount.email, zkAccount.suiAddress, None))
               ELSE IF ~tok.present
                   THEN Respond(r, Failure(400, "token_required"))
               ELSE IF tok.segments # 3
                   THEN Respond(r, Failure(400, "invalid_jwt"))
               ELSE IF ~tok.json
                   THEN Respond(r, Failure(500, "exception"))
               ELSE IF tok.sub # zkAccount.subjectId
                   THEN Respond(r, Failure(403, "mismatch"))
               ELSE [r EXCEPT !.pc = "refresh_epoch", !.found = zkAccount]]
    /\ UNCHANGED <<production, accounts, clock, suiNodeUp,
                   mongoDbConnected, connection, exercises, transactions>>

\* a refresh that draws a new salt for the account it saves
RefreshEpochNewSalt(i) ==
    /\ req[i].pc = "refresh_epoch"
    /\ \E e \in EpochOutcomes, d \in RandomHex :
         LET r == req[i]
         IN  req' = [req EXCEPT ![i] =
                 [r EXCEPT !.pc = "refresh_save", !.epoch = e,
                           !.doc = [r.found EXCEPT !.updatedAt = clock,
                                                   !.userSalt = HexSalt(d)]]]
    /\ UNCHANGED <<production, accounts, clock, suiNodeUp,
                   mongoDbConnected, connection, exercises, transactions>>

\* getLatestSuiSystemState() returns; updatedAt is set and save() is issued
RefreshEpoch(i) ==
    /\ req[i].pc = "refresh_epoch"
    /\ \E e \in EpochOutcomes :
         LET r == req[i]
         IN  req' = [req EXCEPT ![i] =
                 [r EXCEPT !.pc = "refresh_save", !.epoch = e,
                           !.doc = [r.found EXCEPT !.updatedAt = clock]]]
    /\ UNCHANGED <<production, accounts, clock, suiNodeUp,
                   mongoDbConnected, connection, exercises, transactions>>

\* save() completes; the refreshed payload is sent
RefreshSave(i) ==
    /\ req[i].pc = "refresh_save"
    /\ LET r == req[i]
       IN  /\ accounts' = UpdateDoc(accounts, r.found, r.doc)
           /\ req' = [req EXCEPT ![i] =
                  Respond(r, Signed(Success(200, r.doc.suiAddress, r.doc.userSalt,
                                     r.doc.addressSeed,
                                     r.epoch + MAX_EPOCH_GAP),
                                    r.doc.email, r.doc.suiAddress, r.token.sub))]
    /\ UNCHANGED <<production, clock, suiNodeUp,
                   mongoDbConnected, connection, exercises, transactions>>

(***************************************************************************)
(* refreshZkLogin (sui.model.js)                                           *)
(***************************************************************************)
\* entry up to the first awaited call
RefreshZkLogin(i, tokens) ==
    /\ Arrives(i)
    /\ \E tok \in tokens, address \in AddressInputs(accounts) :
         req' = [req EXCEPT ![i] =
             [IdleReq EXCEPT !.op = "refreshZkLogin", !.token = tok,
                             !.address = address, !.pc = "rzl_find"]]
    /\ UNCHANGED <<production, accounts, clock, suiNodeUp,
                   mongoDbConnected, connection, exercises, transactions>>

\* findOne({suiAddress}) returns
RzlFindOne(i) ==
    /\ req[i].pc = "rzl_find"
    /\ LET r == req[i]
           k == FindByAddress(accounts, r.address)
           zkAccount == DocAt(accounts, k)
       IN  req' = [req EXCEPT ![i] =
               IF k = 0 THEN Respond(r, Failure(0, "not_found"))
               ELSE IF ~production
                   THEN Respond(r, Signed(Success(0, r.address, zkAccount.userSalt,
                                           zkAccount.addressSeed,
                                           MockMaxEpoch),
                                          zkAccount.email, r.address, None))
               ELSE [r EXCEPT !.pc = "rzl_epoch", !.found = zkAccount]]
    /\ UNCHANGED <<production, accounts, clock, suiNodeUp,
                   mongoDbConnected, connection, exercises, transactions>>

\* getLatestSuiSystemState() returns; updatedAt is set and save() is issued
RzlEpoch(i) ==
    /\ req[i].pc = "rzl_epoch"
    /\ \E e \in EpochOutcomes :
         LET r == req[i]
         IN  req' = [req EXCEPT ![i] =
                 [r EXCEPT !.pc = "rzl_save", !.epoch = e,
                           !.doc = [r.found EXCEPT !.updatedAt = clock]]]
    /\ UNCHANGED <<production, accounts, clock, suiNodeUp,
                   mongoDbConnected, connection, exercises, transactions>>

\* save() completes; the refreshed payload is returned
RzlSave(i) ==
    /\ req[i].pc = "rzl_save"
    /\ LET r == req[i]
       IN  /\ accounts' = UpdateDoc(accounts, r.found, r.doc)
           /\ req' = [req EXCEPT ![i] =
                  Respond(r, Signed(Success(0, r.address, r.doc.userSalt,
                                     r.doc.addressSeed,
                                     r.epoch + MAX_EPOCH_GAP),
                                    r.doc.email, r.address, r.doc.subjectId))]
    /\ UNCHANGED <<production, clock, suiNodeUp,
                   mongoDbConnected, connection, exercises, transactions>>

(***************************************************************************)
(* initializeDirectZkLogin (controller)                                    *)
(***************************************************************************)
\* the email of the profile of an authenticated caller, if any
ProfileEmails == {None, "a@x.com"}

\* entry up to the first awaited call of the account flow
InitializeDirectZkLogin(i, profileEmails, emails) ==
    /\ Arrives(i)
    /\ \E profileEmail \in profileEmails, email \in emails,
          randomId \in RandomIds, d \in RandomHex :
         LET userEmail == IF profileEmail # None THEN profileEmail
                          ELSE IF email # None THEN email
                          ELSE AnonymousEmail(randomId)
             r == [IdleReq EXCEPT
                      !.op = "initializeDirect", !.userEmail = userEmail,
                      !.anonymous = (profileEmail = None /\ email = None)]
         IN  req' = [req EXCEPT ![i] =
                 IF ~production THEN [r EXCEPT !.pc = "dev_find"]
                 ELSE [r EXCEPT !.pc = "direct_epoch",
                                !.userSalt = HexSalt(d)]]
    /\ UNCHANGED <<production, accounts, clock, suiNodeUp,
                   mongoDbConnected, connection, exercises, transactions>>

\* getLatestSuiSystemState() returns; the placeholder account is built and
\* save() is issued
DirectEpoch(i) ==
    /\ req[i].pc = "direct_epoch"
    /\ \E e \in EpochOutcomes, a \in RandomAddresses :
         LET r == req[i]
         IN  req' = [req EXCEPT ![i] =
                 [r EXCEPT !.pc = "direct_save", !.epoch = e,
                           !.doc = NewDoc("direct", r.userEmail, r.userEmail,
                                          a, r.userSalt, DirectPlaceholder,
                                          clock)]]
    /\ UNCHANGED <<production, accounts, clock, suiNodeUp,
                   mongoDbConnected, connection, exercises, transactions>>

\* save() completes; the payload is sent
DirectSave(i) ==
    /\ req[i].pc = "direct_save"
    /\ LET r == req[i]
       IN  IF DuplicateKey(accounts, r.doc)
           THEN /\ accounts' = accounts
                /\ req' = [req EXCEPT ![i] =
                       Respond(r, Failure(500, "exception"))]
           ELSE /\ accounts' = InsertDoc(accounts, r.doc)
                /\ req' = [req EXCEPT ![i] =
                       Respond(r, Signed(Success(200, r.doc.suiAddress, r.userSalt,
                                          DirectPlaceholder,
                                          r.epoch + MAX_EPOCH_GAP),
                                         r.userEmail, r.doc.suiAddress, None))]
    /\ UNCHANGED <<production, clock, suiNodeUp,
                   mongoDbConnected, connection, exercises, transactions>>

(***************************************************************************)
(* initializeDirectZkLogin (sui.model.js)                                  *)
(***************************************************************************)
\* entry up to the first awaited call
InitializeDirect(i, emails) ==
    /\ Arrives(i)
    /\ \E email \in emails, randomId \in RandomIds, d \in RandomHex,
          seed \in RandomSeeds :
         LET identifier == IF email # None THEN email
                           ELSE AnonymousIdentifier(randomId)
             r == [IdleReq EXCEPT !.op = "initializeDirectZkLogin",
                                  !.userEmail = identifier,
                                  !.anonymous = (email = None)]
         IN  req' = [req EXCEPT ![i] =
                 IF ~production THEN [r EXCEPT !.pc = "idz_dev_find"]
                 ELSE [r EXCEPT
                         !.pc = "idz_save", !.userSalt = HexSalt(d),
                         !.doc = NewDoc("direct", identifier, identifier,
                                    GenerateDeterministicAddress(identifier),
                                    HexSalt(d), seed, clock)]]
    /\ UNCHANGED <<production, accounts, clock, suiNodeUp,
                   mongoDbConnected, connection, exercises, transactions>>

\* development branch: findOne({email: identifier}) returns, save() issued
IdzDevFindOne(i) ==
    /\ req[i].pc = "idz_dev_find"
    /\ LET r == req[i]
           k == FindByEmail(accounts, r.userEmail)
           found == DocAt(accounts, k)
           mockAddress == GenerateDeterministicAddress(r.userEmail)
       IN  req' = [req EXCEPT ![i] =
               [r EXCEPT !.pc = "idz_dev_save", !.found = found,
                         !.doc = IF k # 0
                                 THEN [found EXCEPT
                                     !.suiAddress = mockAddress,
                                     !.userSalt = DirectSalt(r.userEmail),
                                     !.addressSeed = DirectSeed(r.userEmail),
                                     !.updatedAt = clock]
                                 ELSE NewDoc("direct", r.userEmail,
                                     r.userEmail, mockAddress,
                                     DirectSalt(r.userEmail),
                                     DirectSeed(r.userEmail), clock)]]
    /\ UNCHANGED <<production, accounts, clock, suiNodeUp,
                   mongoDbConnected, connection, exercises, transactions>>

\* development branch: save() completes or throws (the error is logged and
\* dropped); the payload is returned
IdzDevSave(i) ==
    /\ req[i].pc = "idz_dev_save"
    /\ LET r == req[i]
       IN  /\ accounts' =
                 IF r.found.id # 0 THEN UpdateDoc(accounts, r.found, r.doc)
                 ELSE IF DuplicateKey(accounts, r.doc) THEN accounts
                 ELSE InsertDoc(accounts, r.doc)
           /\ req' = [req EXCEPT ![i] =
                  Respond(r, Signed(Success(0,
                                     GenerateDeterministicAddress(r.userEmail),
                                     DirectSalt(r.userEmail),
                                     DirectSeed(r.userEmail), MockMaxEpoch),
                                    r.userEmail, GenerateDeterministicAddress(r.userEmail), None))]
    /\ UNCHANGED <<production, clock, suiNodeUp,
                   mongoDbConnected, connection, exercises, transactions>>

\* production branch: save() completes
IdzSave(i) ==
    /\ req[i].pc = "idz_save"
    /\ LET r == req[i]
       IN  IF DuplicateKey(accounts, r.doc)
           THEN /\ accounts' = accounts
                /\ req' = [req EXCEPT ![i] =
                       Respond(r, Failure(0, "exception"))]
           ELSE /\ accounts' = InsertDoc(accounts, r.doc)
                /\ req' = [req EXCEPT ![i] = [r EXCEPT !.pc = "idz_epoch"]]
    /\ UNCHANGED <<production, clock, suiNodeUp,
                   mongoDbConnected, connection, exercises, transactions>>

\* production branch: getLatestSuiSystemState() returns; payload returned
IdzEpoch(i) ==
    /\ req[i].pc = "idz_epoch"
    /\ \E e \in EpochOutcomes :
         LET r == req[i]
         IN  req' = [req EXCEPT ![i] =
                 Respond(r, Signed(Success(0, r.doc.suiAddress, r.userSalt,
                                    r.doc.addressSeed, e + MAX_EPOCH_GAP),
                                   r.userEmail, r.doc.suiAddress, None))]
    /\ UNCHANGED <<production, accounts, clock, suiNodeUp,
                   mongoDbConnected, connection, exercises, transactions>>

(***************************************************************************)
(* Proof requests: generateZkProof (controller) and getZkProof             *)
(* (sui.model.js).                                                         *)
(***************************************************************************)
\* the five required inputs of a proof request
ProofFields ==
    {"jwt", "extendedEphemeralPublicKey", "maxEpoch", "jwtRandomness",
     "salt"}

\* an input is given, is the empty string, or is not given (undefined)
Given == "given"
Empty == "empty"
Absent == "absent"

AllGiven == [f \in ProofFields |-> Given]

\* the inputs of a proof request: complete, or with one defective field
ProofInputs ==
    {AllGiven}
        \cup {[AllGiven EXCEPT ![f] = v] :
                 f \in ProofFields, v \in {Empty, Absent}}

\* !jwt || !extendedEphemeralPublicKey || !maxEpoch || !jwtRandomness || !salt
MissingParameters(p) == \E f \in ProofFields : p[f] # Given

\* maxEpoch.toString(), jwtRandomness.toString(), userSalt.toString() throw
\* TypeError on undefined
ToStringThrows(p) ==
    \E f \in {"maxEpoch", "jwtRandomness", "salt"} : p[f] = Absent

\* the literal proof returned without a prover
MockProof == "mock_proof"

\* response.data of the prover
ProverProof == "prover_proof"

\* the messages of the errors axios.post rejects with: a transport error,
\* a response with a status outside 2xx
ProverErrors == {"connect ECONNREFUSED", "Request failed with status code 500"}

\* the outcomes of one call of the prover
ProverOutcomes == {"ok"} \cup ProverErrors

\* the payload {success: true, zkProof}
ProofSuccess(status, zkProof) ==
    [NoResp EXCEPT !.status = status, !.success = TRUE, !.zkProof = zkProof]

\* generateZkProof: validation, the mock proof, or axios.post is issued
GenerateZkProof(i, inputs) ==
    /\ Arrives(i)
    /\ \E p \in inputs :
         LET r == [IdleReq EXCEPT !.op = "prove", !.proofInput = p]
         IN  req' = [req EXCEPT ![i] =
                 IF MissingParameters(p)
                     THEN Respond(r, Failure(400, "missing_parameters"))
                 ELSE IF ~production
                     THEN Respond(r, ProofSuccess(200, MockProof))
                 ELSE [r EXCEPT !.pc = "prove_post", !.proverCalls = 1]]
    /\ UNCHANGED <<production, accounts, clock, suiNodeUp,
                   mongoDbConnected, connection, exercises, transactions>>

\* a handler that posts to the prover again after a failed call
ProveReturnRetries(i) ==
    /\ req[i].pc = "prove_post"
    /\ \E outcome \in ProverOutcomes :
         req' = [req EXCEPT ![i] =
             IF outcome = "ok"
                 THEN Respond(req[i], ProofSuccess(200, ProverProof))
             ELSE IF req[i].proverCalls < 2
                 THEN [req[i] EXCEPT !.proverCalls = @ + 1]
             ELSE Respond(req[i], Failure(500, "prover_service_failed"))]
    /\ UNCHANGED <<production, accounts, clock, suiNodeUp,
                   mongoDbConnected, connection, exercises, transactions>>

\* generateZkProof: axios.post resolves or rejects
ProveReturn(i) ==
    /\ req[i].pc = "prove_post"
    /\ \E outcome \in ProverOutcomes :
         req' = [req EXCEPT ![i] =
             IF outcome = "ok"
                 THEN Respond(req[i], ProofSuccess(200, ProverProof))
             ELSE Respond(req[i], Failure(500, "prover_service_failed"))]
    /\ UNCHANGED <<production, accounts, clock, suiNodeUp,
                   mongoDbConnected, connection, exercises, transactions>>

\* getZkProof: the mock proof, or the request body is built and axios.post
\* is issued
GetZkProof(i, inputs) ==
    /\ Arrives(i)
    /\ \E p \in inputs :
         LET r == [IdleReq EXCEPT !.op = "getZkProof", !.proofInput = p]
         IN  req' = [req EXCEPT ![i] =
                 IF ~production THEN Respond(r, ProofSuccess(0, MockProof))
                 ELSE IF ToStringThrows(p)
                     THEN Respond(r, Thrown("type_error"))
                 ELSE [r EXCEPT !.pc = "gzp_post", !.proverCalls = 1]]
    /\ UNCHANGED <<production, accounts, clock, suiNodeUp,
                   mongoDbConnected, connection, exercises, transactions>>

\* getZkProof: axios.post resolves, or rejects and the error is rethrown
GzpReturn(i) ==
    /\ req[i].pc = "gzp_post"
    /\ \E outcome \in ProverOutcomes :
         req' = [req EXCEPT ![i] =
             IF outcome = "ok"
                 THEN Respond(req[i], ProofSuccess(0, ProverProof))
             ELSE Respond(req[i], Thrown(outcome))]
    /\ UNCHANGED <<production, accounts, clock, suiNodeUp,
                   mongoDbConnected, connection, exercises, transactions>>

(***************************************************************************)
(* getZkLoginConfig (controller) and getZkLoginConfig (sui.model.js).      *)
(***************************************************************************)
\* the payload {success: true, config: {maxEpoch, jwtIssuer, networkEnv,
\* proverUrl}}; the last three are literals and configuration values
ConfigSuccess(status, maxEpoch) ==
    [NoResp EXCEPT !.status = status, !.success = TRUE, !.maxEpoch = maxEpoch]

\* controller: Sui.getLatestSuiSystemState() is awaited
GetZkLoginConfig(i) ==
    /\ Arrives(i)
    /\ req' = [req EXCEPT ![i] =
           [IdleReq EXCEPT !.op = "config", !.pc = "config_epoch"]]
    /\ UNCHANGED <<production, accounts, clock, suiNodeUp,
                   mongoDbConnected, connection, exercises, transactions>>

\* a handler that answers with its default maxEpoch when the node is down
ConfigEpochDefault(i) ==
    /\ req[i].pc = "config_epoch"
    /\ \E e \in EpochOutcomes :
         req' = [req EXCEPT ![i] =
             Respond(req[i],
                     ConfigSuccess(200, IF suiNodeUp THEN e + MAX_EPOCH_GAP
                                        ELSE ConfigDefaultMaxEpoch))]
    /\ UNCHANGED <<production, accounts, clock, suiNodeUp,
                   mongoDbConnected, connection, exercises, transactions>>

\* controller: getLatestSuiSystemState() returns (it does not throw, so the
\* default "10" is never kept); the configuration is sent
ConfigEpoch(i) ==
    /\ req[i].pc = "config_epoch"
    /\ \E e \in EpochOutcomes :
         req' = [req EXCEPT ![i] =
             Respond(req[i], ConfigSuccess(200, e + MAX_EPOCH_GAP))]
    /\ UNCHANGED <<production, accounts, clock, suiNodeUp,
                   mongoDbConnected, connection, exercises, transactions>>

\* library: getLatestSuiSystemState() is awaited
SuiGetZkLoginConfig(i) ==
    /\ Arrives(i)
    /\ req' = [req EXCEPT ![i] =
           [IdleReq EXCEPT !.op = "getZkLoginConfig", !.pc = "sgc_epoch"]]
    /\ UNCHANGED <<production, accounts, clock, suiNodeUp,
                   mongoDbConnected, connection, exercises, transactions>>

\* library: getLatestSuiSystemState() returns; the configuration is returned
SuiConfigEpoch(i) ==
    /\ req[i].pc = "sgc_epoch"
    /\ \E e \in EpochOutcomes :
         req' = [req EXCEPT ![i] =
             Respond(req[i], ConfigSuccess(0, e + MAX_EPOCH_GAP))]
    /\ UNCHANGED <<production, accounts, clock, suiNodeUp,
                   mongoDbConnected, connection, exercises, transactions>>

(***************************************************************************)
(* The HTTP surface: server.js and sui.routes.js.  Express hands a request *)
(* to the first route registered for its method and path; a route that     *)
(* answers without calling next() ends the dispatch.                       *)
(***************************************************************************)
\* `0x${Math.random().toString(36).substring(2, 15)}${'0'.repeat(50)}`:
\* base-36 digits, which may or may not all be hexadecimal digits
ManualAddresses == {[kind |-> "manual", hex |-> h] : h \in BOOLEAN}

\* "mock_user_salt_" + Math.random().toString(36).substring(2, 15)
ManualSalts == {[kind |-> "mock_user_salt", n |-> n] : n \in {1, 2}}

\* "mock_address_seed_" + Math.random().toString(36).substring(2, 15)
ManualSeed == [kind |-> "mock_address_seed"]

\* Joi.string().required().pattern(/^0x[a-fA-F0-9]{40,64}$/)
MatchesAddressPattern(a) ==
    CASE a.kind = "zk" -> TRUE
      [] a.kind = "hash" -> TRUE
      [] a.kind = "random" -> TRUE
      [] a.kind = "manual" -> a.hex
      [] OTHER -> FALSE

\* POST /api/sui/zklogin: the route server.js registers before it loads
\* the routers answers every request with a mock payload; the store is not
\* read or written, the zkProof has no maxEpoch, and the request body is
\* written to the log
ManualZkLogin(i, tokens, emails) ==
    /\ Arrives(i)
    /\ \E tok \in tokens, email \in emails, gid \in GoogleIds,
          a \in ManualAddresses, salt \in ManualSalts :
         LET r == [IdleReq EXCEPT !.op = "manualZkLogin", !.token = tok,
                                  !.userEmail = UserEmail(email, gid),
                                  !.logged = {"idToken"}]
         IN  req' = [req EXCEPT ![i] =
                 Respond(r, Signed(Success(200, a, salt, ManualSeed, 0),
                                   r.userEmail, a, None))]
    /\ UNCHANGED <<production, accounts, clock, suiNodeUp,
                   mongoDbConnected, connection, exercises, transactions>>

\* the addresses a client can send to refresh: those it was given in a
\* response, those of the stored accounts, or another one
ClientAddresses ==
    {req[j].resp.address : j \in {n \in Requests : req[n].resp.success}}
        \cup AddressInputs(accounts)

\* POST /api/sui/zklogin/refresh: validateRequest(validations.zkLoginRefresh)
\* rejects the body with 422, or handleZkLoginRefresh starts
PostZkLoginRefresh(i, tokens) ==
    /\ Arrives(i)
    /\ \E tok \in tokens, address \in ClientAddresses :
         LET r == [IdleReq EXCEPT !.op = "refresh", !.token = tok,
                                  !.address = address]
         IN  req' = [req EXCEPT ![i] =
                 IF ~MatchesAddressPattern(address)
                     THEN Respond(r, Failure(422, "validation"))
                 ELSE [r EXCEPT !.pc = "refresh_find"]]
    /\ UNCHANGED <<production, accounts, clock, suiNodeUp,
                   mongoDbConnected, connection, exercises, transactions>>

(***************************************************************************)
(* Startup: connectToMongoDB (server.js) around connectWithRetry           *)
(* (models/index.js).  It runs once, from the listen callback, while       *)
(* requests are already served.                                            *)
(***************************************************************************)
\* the listen callback calls connectToMongoDB()
ConnectToMongoDB(i) ==
    /\ i = 1
    /\ Arrives(i)
    /\ req' = [req EXCEPT ![i] =
           [IdleReq EXCEPT !.op = "connectToMongoDB", !.pc = "ctm_loop"]]
    /\ UNCHANGED <<production, accounts, clock, suiNodeUp,
                   mongoDbConnected, connection, exercises, transactions>>

\* while (retries < maxRetries): db.connect() is called
CtmConnect(i) ==
    /\ req[i].pc = "ctm_loop"
    /\ req[i].startup.retries < MaxRetries
    /\ req' = [req EXCEPT ![i] =
           [@ EXCEPT !.pc = "cwr_connect",
                     !.startup = [@ EXCEPT !.calls = @ + 1, !.i = 0,
                                           !.delay = FirstDelay,
                                           !.lastError = 0, !.thrown = 0]]]
    /\ UNCHANGED <<production, accounts, clock, suiNodeUp,
                   mongoDbConnected, connection, exercises, transactions>>

\* a connectWithRetry that keeps the error of its first failed attempt
CwrConnectFirstError(i) ==
    /\ req[i].pc = "cwr_connect"
    /\ \E ok \in BOOLEAN :
         LET st == [req[i].startup EXCEPT !.attempts = @ + 1]
             failed == [st EXCEPT !.lastError =
                                     IF @ = 0 THEN st.attempts ELSE @]
         IN  /\ req' = [req EXCEPT ![i] =
                    IF ok
                        THEN [@ EXCEPT !.pc = "done",
                                       !.startup = [st EXCEPT
                                                       !.connected = TRUE]]
                    ELSE IF st.i < RetryCount - 1
                        THEN [@ EXCEPT !.pc = "cwr_wait", !.startup = failed]
                    ELSE [@ EXCEPT !.pc = "ctm_catch",
                                   !.startup = [failed EXCEPT
                                       !.thrown = failed.lastError]]]
             /\ mongoDbConnected' = IF ok THEN FlagTrue ELSE mongoDbConnected
             /\ connection' = IF ok THEN "connected" ELSE connection
    /\ UNCHANGED <<production, accounts, clock, suiNodeUp,
                   exercises, transactions>>

\* connectWithRetry: mongoose.connect() resolves, both functions return
\* and connectToMongoDB sets mongoDbConnected to true; or it rejects:
\* another attempt follows after the delay, or after the last attempt
\* lastError is thrown
CwrConnect(i) ==
    /\ req[i].pc = "cwr_connect"
    /\ \E ok \in BOOLEAN :
         LET st == [req[i].startup EXCEPT !.attempts = @ + 1]
             failed == [st EXCEPT !.lastError = st.attempts]
         IN  /\ req' = [req EXCEPT ![i] =
                    IF ok
                        THEN [@ EXCEPT !.pc = "done",
                                       !.startup = [st EXCEPT
                                                       !.connected = TRUE]]
                    ELSE IF st.i < RetryCount - 1
                        THEN [@ EXCEPT !.pc = "cwr_wait", !.startup = failed]
                    ELSE [@ EXCEPT !.pc = "ctm_catch",
                                   !.startup = [failed EXCEPT
                                       !.thrown = failed.lastError]]]
             /\ mongoDbConnected' = IF ok THEN FlagTrue ELSE mongoDbConnected
             /\ connection' = IF ok THEN "connected" ELSE connection
    /\ UNCHANGED <<production, accounts, clock, suiNodeUp,
                   exercises, transactions>>

\* connectWithRetry: the timer fires; delay *= 1.5, i++
CwrWait(i) ==
    /\ req[i].pc = "cwr_wait"
    /\ req' = [req EXCEPT ![i] =
           [@ EXCEPT !.pc = "cwr_connect",
                     !.startup = [@ EXCEPT !.i = @ + 1,
                                           !.delay = (@ * 3) \div 2]]]
    /\ UNCHANGED <<production, accounts, clock, suiNodeUp,
                   mongoDbConnected, connection, exercises, transactions>>

\* a catch that waits and tries again whatever the number of retries
CtmCatchUnbounded(i) ==
    /\ req[i].pc = "ctm_catch"
    /\ req' = [req EXCEPT ![i] =
           [@ EXCEPT !.pc = "ctm_wait", !.startup = [@ EXCEPT !.retries = 0]]]
    /\ mongoDbConnected' = FlagFalse
    /\ UNCHANGED <<production, accounts, clock, suiNodeUp,
                   connection, exercises, transactions>>

\* connectToMongoDB: catch (err): retries++ and mongoDbConnected is set to
\* false; after maxRetries the function returns (the API works in limited
\* mode), otherwise it waits
CtmCatch(i) ==
    /\ req[i].pc = "ctm_catch"
    /\ LET st == [req[i].startup EXCEPT !.retries = @ + 1]
       IN  req' = [req EXCEPT ![i] =
               IF st.retries >= MaxRetries
                   THEN [@ EXCEPT !.pc = "done", !.startup = st]
               ELSE [@ EXCEPT !.pc = "ctm_wait", !.startup = st]]
    /\ mongoDbConnected' = FlagFalse
    /\ UNCHANGED <<production, accounts, clock, suiNodeUp,
                   connection, exercises, transactions>>

\* connectToMongoDB: the retry interval has passed
CtmWait(i) ==
    /\ req[i].pc = "ctm_wait"
    /\ req' = [req EXCEPT ![i] = [@ EXCEPT !.pc = "ctm_loop"]]
    /\ UNCHANGED <<production, accounts, clock, suiNodeUp,
                   mongoDbConnected, connection, exercises, transactions>>

(***************************************************************************)
(* The connection after the startup: the driver loses it and finds it      *)
(* again by itself; the handlers of models/index.js only log the events.   *)
(***************************************************************************)
\* mongoose.connection emits 'disconnected'
ConnectionLost ==
    /\ connection = "connected"
    /\ connection' = "disconnected"
    /\ UNCHANGED <<production, accounts, clock, suiNodeUp, req,
                   mongoDbConnected, exercises, transactions>>

\* mongoose.connection emits 'connected' after a reconnect
ConnectionRestored ==
    /\ connection = "disconnected"
    /\ \E i \in Requests : req[i].startup.connected
    /\ connection' = "connected"
    /\ UNCHANGED <<production, accounts, clock, suiNodeUp, req,
                   mongoDbConnected, exercises, transactions>>

(***************************************************************************)
(* Exercise controller (exercise.controller.js): every operation is the    *)
(* pair [checkDbConnection, handler].  With bufferCommands off a store     *)
(* call succeeds only while the connection is up.                          *)
(***************************************************************************)
ExerciseUsers == {"u1", "u2"}

\* new DailyExercise({user, day, type, ...})
NewExercise(user, day) == [user |-> user, day |-> day, type |-> "general"]

\* DailyExercise.find({ user }), aggregate $match: { user }
ExercisesOf(rows, user) == SelectSeq(rows, LAMBDA x : x.user = user)

\* res.send(...) with a 2xx status; findAll sends the bare list
ExerciseOk(status) == [NoResp EXCEPT !.status = status, !.success = TRUE]

\* a check that lets the request pass unless the setting is false
CheckDbConnectionUnset == mongoDbConnected # FlagFalse

\* if (!req.app.get('mongoDbConnected')) return res.status(503)...: the
\* request passes when the setting is true
CheckDbConnection == mongoDbConnected = FlagTrue

\* GET /health and GET /api/health of server.js: the report is computed
\* from the setting and sent at once
GetHealth(i) ==
    /\ Arrives(i)
    /\ LET isDbConnected == mongoDbConnected = FlagTrue
           r == [IdleReq EXCEPT !.op = "health",
                     !.out = [kind |-> "health",
                              status |-> IF isDbConnected THEN "ok"
                                         ELSE "degraded",
                              database |-> IF isDbConnected THEN "connected"
                                           ELSE "disconnected"]]
       IN  req' = [req EXCEPT ![i] = Respond(r, ExerciseOk(200))]
    /\ UNCHANGED <<production, accounts, clock, suiNodeUp,
                   mongoDbConnected, connection, exercises, transactions>>

\* findAll: the check, then DailyExercise.find({}) is issued
FindAll(i) ==
    /\ Arrives(i)
    /\ LET r == [IdleReq EXCEPT !.op = "findAll"]
       IN  req' = [req EXCEPT ![i] =
               IF ~CheckDbConnection
                   THEN Respond(r, Failure(503, "db_unavailable"))
               ELSE [r EXCEPT !.pc = "ex_find_all"]]
    /\ UNCHANGED <<production, accounts, clock, suiNodeUp,
                   mongoDbConnected, connection, exercises, transactions>>

\* find({}) returns; the list is sent
FindAllReturn(i) ==
    /\ req[i].pc = "ex_find_all"
    /\ connection = "connected"
    /\ req' = [req EXCEPT ![i] =
           Respond([@ EXCEPT !.out = [kind |-> "list", rows |-> exercises]],
                   ExerciseOk(200))]
    /\ UNCHANGED <<production, accounts, clock, suiNodeUp,
                   mongoDbConnected, connection, exercises, transactions>>

\* create: the check, the required fields, then save() is issued
Create(i) ==
    /\ Arrives(i)
    /\ \E user \in {None, "u1"}, day \in {None, "d1"} :
         LET r == [IdleReq EXCEPT !.op = "create",
                       !.arg = [kind |-> "exercise", user |-> user,
                                day |-> day]]
         IN  req' = [req EXCEPT ![i] =
                 IF ~CheckDbConnection
                     THEN Respond(r, Failure(503, "db_unavailable"))
                 ELSE IF user = None \/ day = None
                     THEN Respond(r, Failure(400, "required"))
                 ELSE [r EXCEPT !.pc = "ex_save"]]
    /\ UNCHANGED <<production, accounts, clock, suiNodeUp,
                   mongoDbConnected, connection, exercises, transactions>>

\* save() completes; 201 with the record
CreateSave(i) ==
    /\ req[i].pc = "ex_save"
    /\ connection = "connected"
    /\ LET row == NewExercise(req[i].arg.user, req[i].arg.day)
       IN  /\ exercises' = Append(exercises, row)
           /\ req' = [req EXCEPT ![i] =
                  Respond([@ EXCEPT !.out = [kind |-> "list",
                                             rows |-> <<row>>]],
                          ExerciseOk(201))]
    /\ UNCHANGED <<production, accounts, clock, suiNodeUp,
                   mongoDbConnected, connection, transactions>>

\* findByUser: the check, then find(filters) is issued
FindByUser(i) ==
    /\ Arrives(i)
    /\ \E user \in ExerciseUsers :
         LET r == [IdleReq EXCEPT !.op = "findByUser",
                       !.arg = [kind |-> "user", user |-> user]]
         IN  req' = [req EXCEPT ![i] =
                 IF ~CheckDbConnection
                     THEN Respond(r, Failure(503, "db_unavailable"))
                 ELSE [r EXCEPT !.pc = "ex_find_user"]]
    /\ UNCHANGED <<production, accounts, clock, suiNodeUp,
                   mongoDbConnected, connection, exercises, transactions>>

\* find(filters) returns; 404 when the list is empty
FindByUserReturn(i) ==
    /\ req[i].pc = "ex_find_user"
    /\ connection = "connected"
    /\ LET data == ExercisesOf(exercises, req[i].arg.user)
       IN  req' = [req EXCEPT ![i] =
               IF Len(data) = 0
                   THEN Respond(@, Failure(404, "not_found"))
               ELSE Respond([@ EXCEPT !.out = [kind |-> "list",
                                               rows |-> data]],
                            ExerciseOk(200))]
    /\ UNCHANGED <<production, accounts, clock, suiNodeUp,
                   mongoDbConnected, connection, exercises, transactions>>

\* the query of getPerformanceByType: complete with valid dates, complete
\* with a date that does not parse, or with a parameter missing
PerformanceQueries == {"valid", "invalid_date", "missing"}

\* getPerformanceByType: the check, the parameters, then aggregate() is
\* issued
GetPerformanceByType(i) ==
    /\ Arrives(i)
    /\ \E q \in PerformanceQueries :
         LET r == [IdleReq EXCEPT !.op = "getPerformanceByType",
                       !.arg = [kind |-> "query", query |-> q]]
         IN  req' = [req EXCEPT ![i] =
                 IF ~CheckDbConnection
                     THEN Respond(r, Failure(503, "db_unavailable"))
                 ELSE IF q = "missing"
                     THEN Respond(r, Failure(400, "required"))
                 ELSE IF q = "invalid_date"
                     THEN Respond(r, Failure(400, "invalid_date"))
                 ELSE [r EXCEPT !.pc = "ex_performance"]]
    /\ UNCHANGED <<production, accounts, clock, suiNodeUp,
                   mongoDbConnected, connection, exercises, transactions>>

\* aggregate() returns the groups of the type "general" (every stored
\* record has it); 404 when there is none
PerformanceReturn(i) ==
    /\ req[i].pc = "ex_performance"
    /\ connection = "connected"
    /\ req' = [req EXCEPT ![i] =
           IF Len(exercises) = 0
               THEN Respond(@, Failure(404, "not_found"))
           ELSE Respond([@ EXCEPT !.out = [kind |-> "list",
                                           rows |-> exercises]],
                        ExerciseOk(200))]
    /\ UNCHANGED <<production, accounts, clock, suiNodeUp,
                   mongoDbConnected, connection, exercises, transactions>>

\* getSummary: the check, the user parameter, then the first aggregate()
\* is issued
GetSummary(i) ==
    /\ Arrives(i)
    /\ \E user \in {None} \cup ExerciseUsers :
         LET r == [IdleReq EXCEPT !.op = "getSummary",
                       !.arg = [kind |-> "user", user |-> user]]
         IN  req' = [req EXCEPT ![i] =
                 IF ~CheckDbConnection
                     THEN Respond(r, Failure(503, "db_unavailable"))
                 ELSE IF user = None
                     THEN Respond(r, Failure(400, "required"))
                 ELSE [r EXCEPT !.pc = "ex_summary"]]
    /\ UNCHANGED <<production, accounts, clock, suiNodeUp,
                   mongoDbConnected, connection, exercises, transactions>>

\* the aggregate by type returns: 404 when it is empty, otherwise the
\* aggregate of the totals is issued
SummaryByType(i) ==
    /\ req[i].pc = "ex_summary"
    /\ connection = "connected"
    /\ LET data == ExercisesOf(exercises, req[i].arg.user)
       IN  req' = [req EXCEPT ![i] =
               IF Len(data) = 0
                   THEN Respond(@, Failure(404, "not_found"))
               ELSE [@ EXCEPT !.pc = "ex_totals",
                              !.out = [kind |-> "list", rows |-> data]]]
    /\ UNCHANGED <<production, accounts, clock, suiNodeUp,
                   mongoDbConnected, connection, exercises, transactions>>

\* the aggregate of the totals returns; the summary is sent
SummaryTotals(i) ==
    /\ req[i].pc = "ex_totals"
    /\ connection = "connected"
    /\ req' = [req EXCEPT ![i] = Respond(@, ExerciseOk(200))]
    /\ UNCHANGED <<production, accounts, clock, suiNodeUp,
                   mongoDbConnected, connection, exercises, transactions>>

\* the positions at which an exercise operation awaits the store
ExerciseStorePcs ==
    {"ex_find_all", "ex_save", "ex_find_user", "ex_performance",
     "ex_summary", "ex_totals"}

\* the awaited store call rejects; every handler's catch answers 500
ExerciseStoreFails(i) ==
    /\ req[i].pc \in ExerciseStorePcs
    /\ req' = [req EXCEPT ![i] =
           Respond([@ EXCEPT !.out = NoOut, !.storeFailed = TRUE],
                   Failure(500, "exception"))]
    /\ UNCHANGED <<production, accounts, clock, suiNodeUp,
                   mongoDbConnected, connection, exercises, transactions>>

(***************************************************************************)
(* errorHandler (error.middleware.js).  An error is what the handler looks *)
(* at: whether it is a ValidationError, its statusCode and details, and    *)
(* its message, which is absent or contains any of the three words.        *)
(***************************************************************************)
NoMessage == [present |-> FALSE, zkLogin |-> FALSE, transaction |-> FALSE,
              Sui |-> FALSE]

ErrorMessages ==
    {NoMessage} \cup
    [present : {TRUE}, zkLogin : BOOLEAN, transaction : BOOLEAN,
     Sui : BOOLEAN]

\* validateRequest builds its errors with statusCode 422; the default of
\* express-validation is 400
Errors ==
    [validation : BOOLEAN, statusCode : {422, 400},
     message : ErrorMessages]

\* a handler that tests the message before the class of the error
ErrorHandlerMessageFirst(err) ==
    IF err.message.present /\ err.message.zkLogin
        THEN [status |-> 400, error |-> "zkLogin Error",
              message |-> err.message, details |-> FALSE]
    ELSE IF err.validation
        THEN [status |-> err.statusCode, error |-> "Validation Error",
              message |-> NoMessage, details |-> TRUE]
    ELSE IF err.message.present
            /\ (err.message.transaction \/ err.message.Sui)
        THEN [status |-> 502, error |-> "Blockchain Error",
              message |-> err.message, details |-> FALSE]
    ELSE [status |-> 500, error |-> "Internal Server Error",
          message |-> IF production THEN "generic" ELSE err.message,
          details |-> FALSE]

\* the body and status that errorHandler sends for err; message is
\* err.message or the text 'An unexpected error occurred' ("generic")
ErrorHandler(err) ==
    IF err.validation
        THEN [status |-> err.statusCode, error |-> "Validation Error",
              message |-> NoMessage, details |-> TRUE]
    ELSE IF err.message.present /\ err.message.zkLogin
        THEN [status |-> 400, error |-> "zkLogin Error",
              message |-> err.message, details |-> FALSE]
    ELSE IF err.message.present
            /\ (err.message.transaction \/ err.message.Sui)
        THEN [status |-> 502, error |-> "Blockchain Error",
              message |-> err.message, details |-> FALSE]
    ELSE [status |-> 500, error |-> "Internal Server Error",
          message |-> IF production THEN "generic" ELSE err.message,
          details |-> FALSE]

\* errorHandler(err, req, res, next) is called and answers
ErrorHandlerCall(i) ==
    /\ Arrives(i)
    /\ \E err \in Errors :
         LET body == ErrorHandler(err)
             r == [IdleReq EXCEPT !.op = "errorHandler",
                       !.arg = [kind |-> "error", err |-> err],
                       !.out = [kind |-> "body", message |-> body.message,
                                details |-> body.details]]
         IN  req' = [req EXCEPT ![i] =
                 Respond(r, Failure(body.status, body.error))]
    /\ UNCHANGED <<production, accounts, clock, suiNodeUp,
                   mongoDbConnected, connection, exercises, transactions>>

(***************************************************************************)
(* Transaction helpers (logTransaction, updateTransactionStatus,           *)
(* getTransactionHistory).  The Transaction collection has a unique index  *)
(* on txDigest.  Each helper is one try block: an exception of             *)
(* mongoose.model('Transaction') or of an awaited store call is caught.    *)
(***************************************************************************)
TxDigests == {"d1", "d2"}
TxAddresses == {"x1"}
TxStatuses == {"success", "failure", "pending", "unknown"}

\* finalizedAt: Date has no default; a record that was never finalized
\* has none
NotFinalized == -1

\* new Transaction({...txDetails, updatedAt: new Date()})
NewTransaction(digest, address, status, now) ==
    [txDigest |-> digest, address |-> address, status |-> status,
     details |-> "none", updatedAt |-> now, finalizedAt |-> NotFinalized]

\* Transaction.findOne({ txDigest }) as an index, 0 if there is none
FindByDigest(rows, digest) ==
    FirstOf({k \in 1..Len(rows) : rows[k].txDigest = digest})

\* Transaction.find({ address })
TransactionsOf(rows, address) ==
    SelectSeq(rows, LAMBDA x : x.address = address)

\* the first n elements of a list: .limit(n)
Limit(rows, n) == SubSeq(rows, 1, IF Len(rows) < n THEN Len(rows) ELSE n)

\* the update document of updateTransactionStatus applied to a record
StatusUpdate(row, status, details, now) ==
    [row EXCEPT !.status = status,
                !.details = IF details = "none" THEN @ ELSE details,
                !.updatedAt = now,
                !.finalizedAt = IF status \in {"success", "failure"}
                                THEN now ELSE @]

\* the value a helper returns
Returned == [NoResp EXCEPT !.success = TRUE]
NullOut == [kind |-> "null"]
EmptyPage(limit) ==
    [kind |-> "page", transactions |-> <<>>, total |-> 0, limit |-> limit,
     hasMore |-> FALSE]

\* logTransaction: the model is looked up, the record is built and save()
\* is issued; a failed lookup returns null
LogTransaction(i, digests, statuses) ==
    /\ Arrives(i)
    /\ \E digest \in digests, address \in TxAddresses,
          status \in statuses, registered \in BOOLEAN :
         LET r == [IdleReq EXCEPT !.op = "logTransaction",
                       !.arg = [kind |-> "tx", txDigest |-> digest,
                                address |-> address, status |-> status]]
         IN  req' = [req EXCEPT ![i] =
                 IF ~registered
                     THEN Respond([r EXCEPT !.out = NullOut], Returned)
                 ELSE [r EXCEPT !.pc = "tx_save"]]
    /\ UNCHANGED <<production, accounts, clock, suiNodeUp,
                   mongoDbConnected, connection, exercises, transactions>>

\* save() completes and the record is returned, or the unique index
\* rejects it and null is returned
TxSave(i) ==
    /\ req[i].pc = "tx_save"
    /\ LET a == req[i].arg
           row == NewTransaction(a.txDigest, a.address, a.status, clock)
       IN  IF FindByDigest(transactions, a.txDigest) # 0
           THEN /\ transactions' = transactions
                /\ req' = [req EXCEPT ![i] =
                       Respond([@ EXCEPT !.out = NullOut], Returned)]
           ELSE /\ transactions' = Append(transactions, row)
                /\ req' = [req EXCEPT ![i] =
                       Respond([@ EXCEPT !.out =
                                   [kind |-> "transaction", row |-> row]],
                               Returned)]
    /\ UNCHANGED <<production, accounts, clock, suiNodeUp,
                   mongoDbConnected, connection, exercises>>

\* updateTransactionStatus: the model is looked up and findOneAndUpdate()
\* is issued; details is empty ("none") or names the field it carries
UpdateTransactionStatus(i, digests, statuses, detailsGiven) ==
    /\ Arrives(i)
    /\ \E digest \in digests, status \in statuses,
          details \in detailsGiven, registered \in BOOLEAN :
         LET r == [IdleReq EXCEPT !.op = "updateTransactionStatus",
                       !.arg = [kind |-> "update", txDigest |-> digest,
                                status |-> status, details |-> details]]
         IN  req' = [req EXCEPT ![i] =
                 IF ~registered
                     THEN Respond([r EXCEPT !.out = NullOut], Returned)
                 ELSE [r EXCEPT !.pc = "tx_update"]]
    /\ UNCHANGED <<production, accounts, clock, suiNodeUp,
                   mongoDbConnected, connection, exercises, transactions>>

\* a findOneAndUpdate() with upsert: an unknown digest gets a record
TxUpdateReturnUpsert(i) ==
    /\ req[i].pc = "tx_update"
    /\ LET a == req[i].arg
           k == FindByDigest(transactions, a.txDigest)
           old == IF k = 0
                  THEN NewTransaction(a.txDigest, "x1", "pending", clock)
                  ELSE transactions[k]
           row == StatusUpdate(old, a.status, a.details, clock)
       IN  /\ transactions' = IF k = 0 THEN Append(transactions, row)
                              ELSE [transactions EXCEPT ![k] = row]
           /\ req' = [req EXCEPT ![i] =
                  Respond([@ EXCEPT !.out =
                              [kind |-> "transaction", row |-> row]],
                          Returned)]
    /\ UNCHANGED <<production, accounts, clock, suiNodeUp,
                   mongoDbConnected, connection, exercises>>

\* findOneAndUpdate({txDigest}, update, {new: true}) returns the updated
\* record, or null when no record has the digest
TxUpdateReturn(i) ==
    /\ req[i].pc = "tx_update"
    /\ LET a == req[i].arg
           k == FindByDigest(transactions, a.txDigest)
       IN  IF k = 0
           THEN /\ transactions' = transactions
                /\ req' = [req EXCEPT ![i] =
                       Respond([@ EXCEPT !.out = NullOut], Returned)]
           ELSE LET row == StatusUpdate(transactions[k], a.status,
                                        a.details, clock)
                IN  /\ transactions' = [transactions EXCEPT ![k] = row]
                    /\ req' = [req EXCEPT ![i] =
                           Respond([@ EXCEPT !.out =
                                       [kind |-> "transaction",
                                        row |-> row]],
                                   Returned)]
    /\ UNCHANGED <<production, accounts, clock, suiNodeUp,
                   mongoDbConnected, connection, exercises>>

\* getTransactionHistory: the model is looked up and find() is issued
GetTransactionHistory(i, limits) ==
    /\ Arrives(i)
    /\ \E address \in TxAddresses, limit \in limits,
          registered \in BOOLEAN :
         LET r == [IdleReq EXCEPT !.op = "getTransactionHistory",
                       !.arg = [kind |-> "history", address |-> address,
                                limit |-> limit]]
         IN  req' = [req EXCEPT ![i] =
                 IF ~registered
                     THEN Respond([r EXCEPT !.out = EmptyPage(limit)],
                                  Returned)
                 ELSE [r EXCEPT !.pc = "tx_find"]]
    /\ UNCHANGED <<production, accounts, clock, suiNodeUp,
                   mongoDbConnected, connection, exercises, transactions>>

\* find(query).sort().skip(0).limit(limit) returns; countDocuments() is
\* issued
TxFindReturn(i) ==
    /\ req[i].pc = "tx_find"
    /\ LET a == req[i].arg
           page == Limit(TransactionsOf(transactions, a.address), a.limit)
       IN  req' = [req EXCEPT ![i] =
               [@ EXCEPT !.pc = "tx_count",
                         !.out = [kind |-> "page", transactions |-> page,
                                  total |-> 0, limit |-> a.limit,
                                  hasMore |-> FALSE]]]
    /\ UNCHANGED <<production, accounts, clock, suiNodeUp,
                   mongoDbConnected, connection, exercises, transactions>>

\* countDocuments(query) returns; the page is returned
TxCountReturn(i) ==
    /\ req[i].pc = "tx_count"
    /\ LET a == req[i].arg
           total == Len(TransactionsOf(transactions, a.address))
       IN  req' = [req EXCEPT ![i] =
               Respond([@ EXCEPT !.out = [@ EXCEPT !.total = total,
                                             !.hasMore = total > a.limit]],
                       Returned)]
    /\ UNCHANGED <<production, accounts, clock, suiNodeUp,
                   mongoDbConnected, connection, exercises, transactions>>

\* the positions at which a transaction helper awaits the store
TxStorePcs == {"tx_save", "tx_update", "tx_find", "tx_count"}

\* the awaited store call rejects: the catch logs the error and returns
\* null, or the empty page
TxStoreFails(i) ==
    /\ req[i].pc \in TxStorePcs
    /\ req' = [req EXCEPT ![i] =
           Respond([@ EXCEPT !.storeFailed = TRUE,
                       !.out = IF req[i].op = "getTransactionHistory"
                               THEN EmptyPage(req[i].arg.limit)
                               ELSE NullOut],
                   Returned)]
    /\ UNCHANGED <<production, accounts, clock, suiNodeUp,
                   mongoDbConnected, connection, exercises, transactions>>

(***************************************************************************)
(* Storage failures: an awaited findOne() or save() rejects (the database  *)
(* is unreachable, the write is refused).  Each handler ends as its catch  *)
(* blocks say; nothing is written by the rejected call.                    *)
(***************************************************************************)
\* the request with the rejected storage call recorded
StoreFailed(r) == [r EXCEPT !.storeFailed = TRUE]

\* handleZkLogin: the inner catch answers 500
LoginStoreFails(i) ==
    /\ req[i].pc \in {"login_find", "login_save"}
    /\ req' = [req EXCEPT ![i] =
           Respond(StoreFailed(req[i]), Failure(500, "exception"))]
    /\ UNCHANGED <<production, accounts, clock, suiNodeUp,
                   mongoDbConnected, connection, exercises, transactions>>

\* handleDevZkLogin: the catch answers 500
DevStoreFails(i) ==
    /\ req[i].pc \in {"dev_find", "dev_save"}
    /\ req' = [req EXCEPT ![i] =
           Respond(StoreFailed(req[i]), Failure(500, "exception"))]
    /\ UNCHANGED <<production, accounts, clock, suiNodeUp,
                   mongoDbConnected, connection, exercises, transactions>>

\* generateZkLoginData, development branch: the error is logged and
\* dropped, the mock payload is returned
GenDevStoreFails(i) ==
    /\ req[i].pc \in {"gen_dev_find", "gen_dev_save"}
    /\ LET r == req[i]
       IN  req' = [req EXCEPT ![i] =
               Respond(StoreFailed(r),
                       Signed(Success(0, GenerateDeterministicAddress(r.userEmail),
                               DevSalt(r.userEmail), DevSeed(r.userEmail),
                               MockMaxEpoch),
                              r.userEmail, GenerateDeterministicAddress(r.userEmail), None))]
    /\ UNCHANGED <<production, accounts, clock, suiNodeUp,
                   mongoDbConnected, connection, exercises, transactions>>

\* a production branch that drops the error as the development branch does
GenStoreFailsDropped(i) ==
    /\ req[i].pc \in {"gen_find", "gen_save"}
    /\ LET r == req[i]
       IN  req' = [req EXCEPT ![i] =
               Respond(StoreFailed(r),
                       Signed(Success(0, JwtToAddress(r.token, HexSalt(<<1, 2>>)),
                               HexSalt(<<1, 2>>),
                               GenAddressSeed(HexSalt(<<1, 2>>), "sub",
                                              r.token.sub, r.token.aud),
                               NetworkEpoch + MAX_EPOCH_GAP),
                              r.userEmail, JwtToAddress(r.token, HexSalt(<<1, 2>>)), r.token.sub))]
    /\ UNCHANGED <<production, accounts, clock, suiNodeUp,
                   mongoDbConnected, connection, exercises, transactions>>

\* generateZkLoginData, production branch: the catch returns
\* {success: false, error}
GenStoreFails(i) ==
    /\ req[i].pc \in {"gen_find", "gen_save"}
    /\ req' = [req EXCEPT ![i] =
           Respond(StoreFailed(req[i]), Failure(0, "exception"))]
    /\ UNCHANGED <<production, accounts, clock, suiNodeUp,
                   mongoDbConnected, connection, exercises, transactions>>

\* handleZkLoginRefresh: the catch answers 500
RefreshStoreFails(i) ==
    /\ req[i].pc \in {"refresh_find", "refresh_save"}
    /\ req' = [req EXCEPT ![i] =
           Respond(StoreFailed(req[i]), Failure(500, "exception"))]
    /\ UNCHANGED <<production, accounts, clock, suiNodeUp,
                   mongoDbConnected, connection, exercises, transactions>>

\* refreshZkLogin: the catch returns {success: false, error}
RzlStoreFails(i) ==
    /\ req[i].pc \in {"rzl_find", "rzl_save"}
    /\ req' = [req EXCEPT ![i] =
           Respond(StoreFailed(req[i]), Failure(0, "exception"))]
    /\ UNCHANGED <<production, accounts, clock, suiNodeUp,
                   mongoDbConnected, connection, exercises, transactions>>

\* initializeDirectZkLogin (controller): the catch answers 500
DirectStoreFails(i) ==
    /\ req[i].pc = "direct_save"
    /\ req' = [req EXCEPT ![i] =
           Respond(StoreFailed(req[i]), Failure(500, "exception"))]
    /\ UNCHANGED <<production, accounts, clock, suiNodeUp,
                   mongoDbConnected, connection, exercises, transactions>>

\* initializeDirectZkLogin (sui.model.js), development branch: the error is
\* logged and dropped, the payload is returned
IdzDevStoreFails(i) ==
    /\ req[i].pc \in {"idz_dev_find", "idz_dev_save"}
    /\ LET r == req[i]
       IN  req' = [req EXCEPT ![i] =
               Respond(StoreFailed(r),
                       Signed(Success(0, GenerateDeterministicAddress(r.userEmail),
                               DirectSalt(r.userEmail),
                               DirectSeed(r.userEmail), MockMaxEpoch),
                              r.userEmail, GenerateDeterministicAddress(r.userEmail), None))]
    /\ UNCHANGED <<production, accounts, clock, suiNodeUp,
                   mongoDbConnected, connection, exercises, transactions>>

\* initializeDirectZkLogin (sui.model.js), production branch: the catch
\* returns {success: false, error}
IdzStoreFails(i) ==
    /\ req[i].pc = "idz_save"
    /\ req' = [req EXCEPT ![i] =
           Respond(StoreFailed(req[i]), Failure(0, "exception"))]
    /\ UNCHANGED <<production, accounts, clock, suiNodeUp,
                   mongoDbConnected, connection, exercises, transactions>>

(***************************************************************************)
(* Specifications.                                                         *)
(***************************************************************************)
GoodTokens == {GoodToken(s) : s \in Subjects}

\* the steps of the login operations after their entry
LoginSteps(i) ==
    \/ LoginFindOne(i)
    \/ LoginEpoch(i)
    \/ LoginSave(i)
    \/ DevFindOne(i)
    \/ DevSave(i)
    \/ GenDevFindOne(i)
    \/ GenDevSave(i)
    \/ GenFindOne(i)
    \/ GenSave(i)
    \/ GenEpoch(i)

\* logins with any token, well-formed or not
NextLogin ==
    \/ \E i \in Requests : HandleZkLogin(i, Tokens, EmailInputs)
    \/ \E i \in Requests : GenerateZkLoginData(i, Tokens, EmailInputs)
    \/ \E i \in Requests : LoginSteps(i)

SpecLogin == Init /\ [][NextLogin]_vars

\* logins with well-formed tokens
NextIdem ==
    \/ \E i \in Requests : HandleZkLogin(i, GoodTokens, EmailInputs)
    \/ \E i \in Requests : GenerateZkLoginData(i, GoodTokens, EmailInputs)
    \/ \E i \in Requests : LoginSteps(i)

SpecIdem == Init /\ [][NextIdem]_vars

\* the steps of the refresh operations after their entry
RefreshSteps(i) ==
    \/ RefreshFindOne(i)
    \/ RefreshEpoch(i)
    \/ RefreshSave(i)
    \/ RzlFindOne(i)
    \/ RzlEpoch(i)
    \/ RzlSave(i)

\* controller logins create the accounts, refreshes of both layers and
\* the clock run against them; refreshZkLogin never reads its token, so
\* it is called without one and with one of another subject
NextRefresh ==
    \/ Tick
    \/ \E i \in Requests : HandleZkLogin(i, {GoodToken("s1")}, {"a@x.com", None})
    \/ \E i \in Requests : LoginFindOne(i)
    \/ \E i \in Requests : LoginEpoch(i)
    \/ \E i \in Requests : LoginSave(i)
    \/ \E i \in Requests : DevFindOne(i)
    \/ \E i \in Requests : DevSave(i)
    \/ \E i \in Requests : HandleZkLoginRefresh(i, Tokens)
    \/ \E i \in Requests : RefreshZkLogin(i, {NoToken, GoodToken("s2")})
    \/ \E i \in Requests : RefreshSteps(i)

SpecRefresh == Init /\ [][NextRefresh]_vars

\* the steps of the initialize-direct operations after their entry
DirectSteps(i) ==
    \/ DevFindOne(i)
    \/ DevSave(i)
    \/ DirectEpoch(i)
    \/ DirectSave(i)
    \/ IdzDevFindOne(i)
    \/ IdzDevSave(i)
    \/ IdzSave(i)
    \/ IdzEpoch(i)

NextDirect ==
    \/ \E i \in Requests :
          InitializeDirectZkLogin(i, ProfileEmails, EmailInputs)
    \/ \E i \in Requests : InitializeDirect(i, EmailInputs)
    \/ \E i \in Requests : DirectSteps(i)

SpecDirect == Init /\ [][NextDirect]_vars

\* proof requests of both layers
NextProve ==
    \/ \E i \in Requests : GenerateZkProof(i, ProofInputs)
    \/ \E i \in Requests : ProveReturn(i)
    \/ \E i \in Requests : GetZkProof(i, ProofInputs)
    \/ \E i \in Requests : GzpReturn(i)

SpecProve == Init /\ [][NextProve]_vars

\* one identity logs in, refreshes and initializes directly, and the
\* configuration is read, while the Sui node stops and resumes answering
NextEpoch ==
    \/ SuiNodeChange
    \/ \E i \in Requests : HandleZkLogin(i, {GoodToken("s1")}, {"a@x.com"})
    \/ \E i \in Requests :
          GenerateZkLoginData(i, {GoodToken("s1")}, {"a@x.com"})
    \/ \E i \in Requests : LoginSteps(i)
    \/ \E i \in Requests : HandleZkLoginRefresh(i, {GoodToken("s1")})
    \/ \E i \in Requests : RefreshZkLogin(i, {NoToken})
    \/ \E i \in Requests : RefreshSteps(i)
    \/ \E i \in Requests : InitializeDirectZkLogin(i, {None}, {"b@x.com"})
    \/ \E i \in Requests : InitializeDirect(i, {"b@x.com"})
    \/ \E i \in Requests : DirectEpoch(i)
    \/ \E i \in Requests : DirectSave(i)
    \/ \E i \in Requests : IdzDevFindOne(i)
    \/ \E i \in Requests : IdzDevSave(i)
    \/ \E i \in Requests : IdzSave(i)
    \/ \E i \in Requests : IdzEpoch(i)
    \/ \E i \in Requests : GetZkLoginConfig(i)
    \/ \E i \in Requests : ConfigEpoch(i)
    \/ \E i \in Requests : SuiGetZkLoginConfig(i)
    \/ \E i \in Requests : SuiConfigEpoch(i)

SpecEpoch == Init /\ [][NextEpoch]_vars

\* the storage failures of the login and initialize-direct handlers
StoreFailures(i) ==
    \/ LoginStoreFails(i)
    \/ DevStoreFails(i)
    \/ GenDevStoreFails(i)
    \/ GenStoreFails(i)
    \/ DirectStoreFails(i)
    \/ IdzDevStoreFails(i)
    \/ IdzStoreFails(i)

\* logins and initialize-direct calls of both layers against a store whose
\* calls may fail
NextFault ==
    \/ \E i \in Requests : HandleZkLogin(i, {GoodToken("s1")}, {"a@x.com"})
    \/ \E i \in Requests :
          GenerateZkLoginData(i, {GoodToken("s1")}, {"a@x.com"})
    \/ \E i \in Requests : LoginSteps(i)
    \/ \E i \in Requests : InitializeDirectZkLogin(i, {None}, {"b@x.com"})
    \/ \E i \in Requests : InitializeDirect(i, {"b@x.com"})
    \/ \E i \in Requests : DirectEpoch(i)
    \/ \E i \in Requests : DirectSave(i)
    \/ \E i \in Requests : IdzDevFindOne(i)
    \/ \E i \in Requests : IdzDevSave(i)
    \/ \E i \in Requests : IdzSave(i)
    \/ \E i \in Requests : IdzEpoch(i)
    \/ \E i \in Requests : StoreFailures(i)

SpecFault == Init /\ [][NextFault]_vars

\* an email of the anonymous form, as a client can send it: it passes
\* Joi.string().email()
ClientAnonymousEmails == {AnonymousEmail("r1")}

\* initialize-direct calls without an email next to logins and
\* initialize-direct calls whose email the client supplies
NextAnon ==
    \/ \E i \in Requests :
          HandleZkLogin(i, {GoodToken("s1")}, ClientAnonymousEmails)
    \/ \E i \in Requests :
          InitializeDirectZkLogin(i, {None},
                                  {None} \cup ClientAnonymousEmails)
    \/ \E i \in Requests : InitializeDirect(i, {None})
    \/ \E i \in Requests : LoginFindOne(i)
    \/ \E i \in Requests : LoginEpoch(i)
    \/ \E i \in Requests : LoginSave(i)
    \/ \E i \in Requests : DevFindOne(i)
    \/ \E i \in Requests : DevSave(i)
    \/ \E i \in Requests : DirectEpoch(i)
    \/ \E i \in Requests : DirectSave(i)
    \/ \E i \in Requests : IdzDevFindOne(i)
    \/ \E i \in Requests : IdzDevSave(i)
    \/ \E i \in Requests : IdzSave(i)
    \/ \E i \in Requests : IdzEpoch(i)

SpecAnon == Init /\ [][NextAnon]_vars

\* every operation of the subsystem, of both layers, with storage calls
\* and the prover failing at any point
NextLife ==
    \/ \E i \in Requests : HandleZkLogin(i, {GoodToken("s1")}, {"a@x.com"})
    \/ \E i \in Requests :
          GenerateZkLoginData(i, {GoodToken("s1")}, {"a@x.com"})
    \/ \E i \in Requests : LoginSteps(i)
    \/ \E i \in Requests : HandleZkLoginRefresh(i, {GoodToken("s1")})
    \/ \E i \in Requests : RefreshZkLogin(i, {NoToken})
    \/ \E i \in Requests : RefreshSteps(i)
    \/ \E i \in Requests : InitializeDirectZkLogin(i, {None}, {"b@x.com"})
    \/ \E i \in Requests : InitializeDirect(i, {"b@x.com"})
    \/ \E i \in Requests : DirectEpoch(i)
    \/ \E i \in Requests : DirectSave(i)
    \/ \E i \in Requests : IdzDevFindOne(i)
    \/ \E i \in Requests : IdzDevSave(i)
    \/ \E i \in Requests : IdzSave(i)
    \/ \E i \in Requests : IdzEpoch(i)
    \/ \E i \in Requests : GetZkLoginConfig(i)
    \/ \E i \in Requests : ConfigEpoch(i)
    \/ \E i \in Requests : SuiGetZkLoginConfig(i)
    \/ \E i \in Requests : SuiConfigEpoch(i)
    \/ \E i \in Requests : GenerateZkProof(i, {AllGiven})
    \/ \E i \in Requests : ProveReturn(i)
    \/ \E i \in Requests : GetZkProof(i, {AllGiven})
    \/ \E i \in Requests : GzpReturn(i)
    \/ \E i \in Requests : StoreFailures(i)
    \/ \E i \in Requests : RefreshStoreFails(i)
    \/ \E i \in Requests : RzlStoreFails(i)

SpecLife == Init /\ [][NextLife]_vars

\* the endpoints as a client reaches them: login through the route of
\* server.js, initialize-direct and refresh through the router; the only
\* accounts are those of initialize-direct, whose subjectId is an email, so
\* no refresh with a token of these subjects gets past the subject check
NextHttp ==
    \/ \E i \in Requests : ManualZkLogin(i, {GoodToken("s1")}, {"a@x.com"})
    \/ \E i \in Requests : InitializeDirectZkLogin(i, {None}, {"b@x.com"})
    \/ \E i \in Requests : DevFindOne(i)
    \/ \E i \in Requests : DevSave(i)
    \/ \E i \in Requests : DirectEpoch(i)
    \/ \E i \in Requests : DirectSave(i)
    \/ \E i \in Requests :
          PostZkLoginRefresh(i, {NoToken, GoodToken("s1")})
    \/ \E i \in Requests : RefreshFindOne(i)

SpecHttp == Init /\ [][NextHttp]_vars

\* the steps of the startup connection
StartupSteps(i) ==
    \/ ConnectToMongoDB(i)
    \/ CtmConnect(i)
    \/ CwrConnect(i)
    \/ CwrWait(i)
    \/ CtmCatch(i)
    \/ CtmWait(i)

\* the startup process
StartupOps == {"connectToMongoDB"}

\* no other operation is in flight when request i arrives
NoneInFlight(i) ==
    \A j \in Requests \ {i} :
        req[j].op \in StartupOps \/ req[j].pc \in {"idle", "done"}

\* the startup connection next to operations whose storage, epoch and
\* prover calls may fail; the operations are served one at a time, since
\* whether a handler repeats a call does not depend on other requests
NextStartup ==
    \/ \E i \in Requests : StartupSteps(i)
    \/ \E i \in Requests :
          /\ NoneInFlight(i)
          /\ \/ HandleZkLogin(i, {GoodToken("s1")}, {"a@x.com"})
             \/ HandleZkLoginRefresh(i, {GoodToken("s1")})
             \/ InitializeDirectZkLogin(i, {None}, {"b@x.com"})
             \/ GetZkLoginConfig(i)
             \/ GenerateZkProof(i, {AllGiven})
    \/ \E i \in Requests : LoginFindOne(i)
    \/ \E i \in Requests : LoginEpoch(i)
    \/ \E i \in Requests : LoginSave(i)
    \/ \E i \in Requests : DevFindOne(i)
    \/ \E i \in Requests : DevSave(i)
    \/ \E i \in Requests : RefreshFindOne(i)
    \/ \E i \in Requests : RefreshEpoch(i)
    \/ \E i \in Requests : RefreshSave(i)
    \/ \E i \in Requests : DirectEpoch(i)
    \/ \E i \in Requests : DirectSave(i)
    \/ \E i \in Requests : ConfigEpoch(i)
    \/ \E i \in Requests : ProveReturn(i)
    \/ \E i \in Requests : LoginStoreFails(i)
    \/ \E i \in Requests : DevStoreFails(i)
    \/ \E i \in Requests : RefreshStoreFails(i)
    \/ \E i \in Requests : DirectStoreFails(i)

\* every timer fires and every connection attempt settles
\* (serverSelectionTimeoutMS), so the startup keeps taking steps
SpecStartup ==
    /\ Init
    /\ [][NextStartup]_vars
    /\ WF_vars(\E i \in Requests : StartupSteps(i))

\* the steps of the exercise operations after their entry
ExerciseSteps(i) ==
    \/ FindAllReturn(i)
    \/ CreateSave(i)
    \/ FindByUserReturn(i)
    \/ PerformanceReturn(i)
    \/ SummaryByType(i)
    \/ SummaryTotals(i)
    \/ ExerciseStoreFails(i)

\* the exercise and health endpoints next to the startup connection and
\* the connection events that follow it
NextExercise ==
    \/ \E i \in Requests : StartupSteps(i)
    \/ ConnectionLost
    \/ ConnectionRestored
    \/ \E i \in Requests : GetHealth(i)
    \/ \E i \in Requests : FindAll(i)
    \/ \E i \in Requests : Create(i)
    \/ \E i \in Requests : FindByUser(i)
    \/ \E i \in Requests : GetPerformanceByType(i)
    \/ \E i \in Requests : GetSummary(i)
    \/ \E i \in Requests : ExerciseSteps(i)

\* the database outlives the server: at the start the collection is empty
\* or holds a record of an earlier run
InitExercise ==
    /\ production \in BOOLEAN
    /\ accounts = <<>>
    /\ clock = 0
    /\ suiNodeUp = TRUE
    /\ req = [i \in Requests |-> IdleReq]
    /\ mongoDbConnected = FlagUnset
    /\ connection = "disconnected"
    /\ exercises \in {<<>>, <<NewExercise("u1", "d1")>>}
    /\ transactions = <<>>

SpecExercise == InitExercise /\ [][NextExercise]_vars

\* errors handed to the error middleware
NextError == \E i \in Requests : ErrorHandlerCall(i)

SpecError == Init /\ [][NextError]_vars

\* the transaction helpers called at any time, with store calls that may
\* reject: one digest is logged as pending, updates name that digest or
\* one that is never logged, the history is read with the default limit
NextTx ==
    \/ Tick
    \/ \E i \in Requests : LogTransaction(i, {"d1"}, {"pending"})
    \/ \E i \in Requests : TxSave(i)
    \/ \E i \in Requests :
          UpdateTransactionStatus(i, TxDigests,
                                  TxStatuses \ {"unknown"}, {"none"})
    \/ \E i \in Requests : TxUpdateReturn(i)
    \/ \E i \in Requests : GetTransactionHistory(i, {20})
    \/ \E i \in Requests : TxFindReturn(i)
    \/ \E i \in Requests : TxCountReturn(i)
    \/ \E i \in Requests : TxStoreFails(i)

SpecTx == Init /\ [][NextTx]_vars

(***************************************************************************)
(* Vocabulary of the properties.                                           *)
(***************************************************************************)
Done(i) == req[i].pc = "done"

LoginOps == {"login", "generateZkLoginData"}
RefreshOps == {"refresh", "refreshZkLogin"}
DirectOps == {"initializeDirect", "initializeDirectZkLogin"}
ProveOps == {"prove", "getZkProof"}
ConfigOps == {"config", "getZkLoginConfig"}

\* the positions at which a request awaits getLatestSuiSystemState()
EpochPcs ==
    {"login_epoch", "gen_epoch", "refresh_epoch", "rzl_epoch",
     "direct_epoch", "idz_epoch", "config_epoch", "sgc_epoch"}

\* the rows written for the identity (issuer, subject)
RowsOfIdentity(iss, sub) ==
    {k \in 1..Len(accounts) :
        accounts[k].provider = iss /\ accounts[k].subjectId = sub}

\* the rows stored under an email
RowsOfEmail(email) ==
    {k \in 1..Len(accounts) : accounts[k].email = Lowercase(email)}

\* request i takes a step
Steps(i) == req'[i] # req[i]

(***************************************************************************)
(* C1: when all requests have completed, the store holds exactly one       *)
(* account row for every identity (issuer, subject) for which a production *)
(* login succeeded, however the logins of that identity interleaved.       *)
(***************************************************************************)
C1_OneAccountPerIdentity ==
    (\A i \in Requests : req[i].pc \in {"idle", "done"}) =>
        \A i \in Requests :
            (/\ Done(i)
             /\ req[i].op \in LoginOps
             /\ production
             /\ req[i].resp.success) =>
                Cardinality(RowsOfIdentity(req[i].token.iss,
                                           req[i].token.sub)) = 1

(***************************************************************************)
(* C2: once a login of an identity (the claims of its token) has returned  *)
(* the stored userSalt of an account, no step of a later or concurrent     *)
(* login with the same claims changes the userSalt of that account.        *)
(***************************************************************************)
C2_SaltImmutable ==
    [][\A i \in Requests : \A k \in 1..Len(accounts) :
          (/\ Steps(i)
           /\ req[i].op \in LoginOps
           /\ \E j \in Requests \ {i} :
                 /\ Done(j)
                 /\ req[j].op \in LoginOps
                 /\ req[j].token = req[i].token
                 /\ req[j].resp.success
                 /\ req[j].resp.userSalt = accounts[k].userSalt) =>
              accounts'[k].userSalt = accounts[k].userSalt]_vars

(***************************************************************************)
(* C3: a first-time production login that reaches its insert after another *)
(* login has stored the account of the same identity leaves the store as   *)
(* it is and completes successfully with the stored salt and address.      *)
(***************************************************************************)
C3_LoserAdoptsWinner ==
    [][\A i \in Requests :
          LET r == req[i]
              k == FindByIdentity(accounts, r.token.iss, r.token.sub)
          IN  (/\ r.pc \in {"login_save", "gen_save"}
               /\ Steps(i)
               /\ r.found.id = 0
               /\ k # 0) =>
                  /\ accounts' = accounts
                  /\ Done(i)' => req'[i].resp.success
                  /\ Done(i)' =>
                        req'[i].resp.userSalt = accounts[k].userSalt
                  /\ ~Done(i)' => req'[i].userSalt = accounts[k].userSalt]_vars

(***************************************************************************)
(* C4: login is idempotent per identity.  For successful logins that       *)
(* carry the same token and the same email, where every login of that      *)
(* subject carries that email: they return the same address, the store     *)
(* holds exactly one row for the identity, and the address and seed of     *)
(* that row are the derivation from its salt.                              *)
(***************************************************************************)
\* every login of the subject of request i carries the email of request i
SoleEmail(i) ==
    \A j \in Requests :
        (req[j].op \in LoginOps /\ req[j].token.sub = req[i].token.sub) =>
            req[j].userEmail = req[i].userEmail

\* address and seed of a row are the deterministic derivation from its salt
DerivedFromSalt(row, tok) ==
    IF row.userSalt.kind = "hex"
    THEN /\ row.suiAddress = JwtToAddress(tok, row.userSalt)
         /\ row.addressSeed =
                GenAddressSeed(row.userSalt, "sub", tok.sub, tok.aud)
    ELSE \E e \in {UserEmail(email, gid) :
                       email \in EmailInputs, gid \in GoogleIds} :
            /\ row.userSalt = DevSalt(e)
            /\ row.suiAddress = GenerateDeterministicAddress(e)
            /\ row.addressSeed = DevSeed(e)

\* the rows of the identity a login acts on: (issuer, subject) in
\* production, the email in development
RowsOfLogin(r) ==
    IF production THEN RowsOfIdentity(r.token.iss, r.token.sub)
    ELSE RowsOfEmail(r.userEmail)

GivenEmails == EmailInputs \ {None}

C5_DirectStable ==
    \A i, j \in Requests :
        (/\ Done(i) /\ Done(j)
         /\ req[i].op \in DirectOps
         /\ req[j].op = req[i].op
         /\ req[i].userEmail \in GivenEmails
         /\ req[j].userEmail = req[i].userEmail) =>
            /\ req[i].resp.success /\ req[j].resp.success
            /\ req[i].resp.userSalt = req[j].resp.userSalt
            /\ req[i].resp.address = req[j].resp.address
            /\ Cardinality(RowsOfEmail(req[i].userEmail)) = 1

(***************************************************************************)
(* C6: a step of a refresh leaves userSalt, addressSeed, address, issuer   *)
(* and subject of every stored account unchanged; it changes at most the   *)
(* updatedAt of the account it looked up, and the salt and seed of a       *)
(* success response are the stored ones.                                   *)
(***************************************************************************)
C6_RefreshFrame ==
    [][\A i \in Requests :
          (req'[i].op \in RefreshOps /\ Steps(i)) =>
              /\ Len(accounts') = Len(accounts)
              /\ \A k \in 1..Len(accounts) :
                    /\ accounts'[k] =
                          [accounts[k] EXCEPT
                              !.updatedAt = accounts'[k].updatedAt]
                    /\ accounts'[k] # accounts[k] => k = req[i].found.id
              /\ (Done(i)' /\ req'[i].resp.success) =>
                    \E k \in 1..Len(accounts') :
                        /\ accounts'[k].suiAddress = req'[i].address
                        /\ accounts'[k].userSalt = req'[i].resp.userSalt
                        /\ accounts'[k].addressSeed =
                              req'[i].resp.addressSeed]_vars

\* a production refresh has saved its account after time has passed and
\* has answered with the payload
C6_Witness ==
    \E i \in Requests :
        /\ production
        /\ Done(i)
        /\ req[i].op \in RefreshOps
        /\ req[i].resp.success
        /\ \E k \in 1..Len(accounts) :
              /\ accounts[k].suiAddress = req[i].address
              /\ accounts[k].updatedAt > 0

(***************************************************************************)
(* C7: a refresh that finds the account and carries a decodable token      *)
(* whose subject differs from the subject of the account ends with the     *)
(* identity-mismatch error (403 from the controller), the store unchanged. *)
(***************************************************************************)
C7_MismatchRejected ==
    [][\A i \in Requests :
          LET r == req[i]
              k == FindByAddress(accounts, r.address)
          IN  (/\ r.pc \in {"refresh_find", "rzl_find"}
               /\ Steps(i)
               /\ k # 0
               /\ r.token.present /\ r.token.segments = 3 /\ r.token.json
               /\ r.token.sub # accounts[k].subjectId) =>
                  /\ Done(i)'
                  /\ req'[i].resp.error = "mismatch"
                  /\ r.op = "refresh" => req'[i].resp.status = 403
                  /\ accounts' = accounts]_vars

(***************************************************************************)
(* C8: a refresh whose address matches no stored account ends with the     *)
(* account-not-found error (404 from the controller) and leaves the store  *)
(* as it is, in every configuration and with or without a token.           *)
(***************************************************************************)
C8_UnknownAddressNotFound ==
    [][\A i \in Requests :
          LET r == req[i]
          IN  (/\ r.pc \in {"refresh_find", "rzl_find"}
               /\ Steps(i)
               /\ FindByAddress(accounts, r.address) = 0) =>
                  /\ Done(i)'
                  /\ ~req'[i].resp.success
                  /\ req'[i].resp.error = "not_found"
                  /\ r.op = "refresh" => req'[i].resp.status = 404
                  /\ accounts' = accounts]_vars

\* a production refresh of an unknown address that carries no token has
\* been answered while an account is stored
C8_Witness ==
    /\ Len(accounts) > 0
    /\ production
    /\ \E i \in Requests :
          /\ Done(i)
          /\ req[i].op \in RefreshOps
          /\ req[i].address = UnknownAddress
          /\ ~req[i].token.present
          /\ req[i].resp.error = "not_found"

(***************************************************************************)
(* C9: the token is optional for refresh.  A controller refresh with an    *)
(* address and with no token or a well-formed one fails only with          *)
(* account-not-found (404) or identity-mismatch (403).                     *)
(***************************************************************************)
C9_TokenOptional ==
    \A i \in Requests :
        (/\ Done(i)
         /\ req[i].op = "refresh"
         /\ req[i].address # EmptyAddress
         /\ req[i].token \in GoodTokens \cup {NoToken}
         /\ ~req[i].resp.success) =>
            req[i].resp.status \in {403, 404}

(***************************************************************************)
(* C10: a login whose token has not three segments, whose middle segment   *)
(* does not decode, or whose payload has no subject fails (with status     *)
(* 400 from the controller), in every configuration.                       *)
(***************************************************************************)
C10_MalformedRejected ==
    \A i \in Requests :
        (/\ Done(i)
         /\ req[i].op \in LoginOps
         /\ req[i].token \in MalformedTokens) =>
            /\ ~req[i].resp.success
            /\ req[i].op = "login" => req[i].resp.status = 400

(***************************************************************************)
(* C11: a proof request with a missing or empty required input fails (with *)
(* status 400 from the controller) and never calls the prover, in both     *)
(* modes and in both layers.                                               *)
(***************************************************************************)
C11_InvalidProofRequestRejected ==
    \A i \in Requests :
        (req[i].op \in ProveOps /\ MissingParameters(req[i].proofInput)) =>
            /\ req[i].proverCalls = 0
            /\ Done(i) =>
                  /\ ~req[i].resp.success
                  /\ req[i].op = "prove" => req[i].resp.status = 400

(***************************************************************************)
(* C12: a proof request with complete inputs makes no prover call in mock  *)
(* mode and answers with the fixed placeholder proof; in live mode it has  *)
(* made exactly one prover call when it ends, whatever the call returned.  *)
(***************************************************************************)
C12_ProverCalledOnce ==
    \A i \in Requests :
        (req[i].op \in ProveOps /\ ~MissingParameters(req[i].proofInput)) =>
            /\ ~production =>
                  /\ req[i].proverCalls = 0
                  /\ Done(i) =>
                        /\ req[i].resp.success
                        /\ req[i].resp.zkProof = MockProof
            /\ production =>
                  /\ req[i].proverCalls <= 1
                  /\ Done(i) => req[i].proverCalls = 1

\* requests of both layers have ended in live mode, one with the proof of
\* the prover and one after the prover call failed
C12_Witness ==
    /\ production
    /\ \E i, j \in Requests :
          /\ Done(i) /\ Done(j)
          /\ req[i].op = "prove" /\ req[j].op = "getZkProof"
          /\ req[i].proofInput = AllGiven /\ req[j].proofInput = AllGiven
          /\ ~req[i].resp.success
          /\ req[j].resp.zkProof = ProverProof

(***************************************************************************)
(* C13: in live mode a proof request whose prover call fails ends in a     *)
(* failure response whose error is the message of the prover error.        *)
(***************************************************************************)
C13_ProverErrorSurfaced ==
    [][\A i \in Requests :
          (/\ req[i].pc \in {"prove_post", "gzp_post"}
           /\ Steps(i)
           /\ req'[i].resp.zkProof # ProverProof) =>
              /\ Done(i)'
              /\ ~req'[i].resp.success
              /\ req'[i].resp.error \in ProverErrors]_vars

(***************************************************************************)
(* C14: a login, refresh or initialize-direct that ends in a success       *)
(* payload has obtained an epoch from the epoch source, and the maxEpoch   *)
(* of the payload is that epoch plus MAX_EPOCH_GAP.                        *)
(***************************************************************************)
C14_MaxEpochIsEpochPlusGap ==
    [][\A i \in Requests :
          LET obtained ==
                  IF req[i].epoch # 0 THEN {req[i].epoch}
                  ELSE IF req[i].pc \in EpochPcs THEN EpochOutcomes
                  ELSE {}
          IN  (/\ Steps(i)
               /\ Done(i)'
               /\ req'[i].op \in LoginOps \cup RefreshOps \cup DirectOps
               /\ req'[i].resp.success) =>
                  \E e \in obtained :
                      req'[i].resp.maxEpoch = e + MAX_EPOCH_GAP]_vars

C16_ConfigDefaultOnFailure ==
    [][\A i \in Requests :
          (/\ req[i].pc \in {"config_epoch", "sgc_epoch"}
           /\ ~suiNodeUp
           /\ Steps(i)) =>
              /\ Done(i)'
              /\ req'[i].resp.success
              /\ req'[i].resp.maxEpoch = ConfigDefaultMaxEpoch]_vars

Identifiers ==
    {UserEmail(email, gid) : email \in EmailInputs, gid \in GoogleIds}
        \cup {"b@x.com"}
        \cup {AnonymousEmail(id) : id \in RandomIds}
        \cup {AnonymousIdentifier(id) : id \in RandomIds}

\* address and seed of the row are the derivation of its salt and of its
\* identity: the zkLogin derivation for a drawn salt, the hash-based one
\* of the development branches otherwise
RowDerived(row) ==
    IF row.userSalt.kind = "hex"
    THEN \E tok \in {GoodToken(s) : s \in Subjects} :
            /\ row.provider = tok.iss
            /\ row.subjectId = tok.sub
            /\ row.suiAddress = JwtToAddress(tok, row.userSalt)
            /\ row.addressSeed =
                   GenAddressSeed(row.userSalt, "sub", tok.sub, tok.aud)
    ELSE \E e \in Identifiers :
            /\ row.email = Lowercase(e)
            /\ row.suiAddress = GenerateDeterministicAddress(e)
            /\ \/ row.userSalt = DevSalt(e) /\ row.addressSeed = DevSeed(e)
               \/ /\ row.userSalt = DirectSalt(e)
                  /\ row.addressSeed = DirectSeed(e)

(***************************************************************************)
(* C18: every stored row has an address and an address seed that are the   *)
(* deterministic derivation of the row's salt and identity; no row holds a *)
(* placeholder or a randomly drawn address or seed.                        *)
(***************************************************************************)
C18_RowsDerived ==
    \A k \in 1..Len(accounts) :
        /\ RowDerived(accounts[k])
        /\ accounts[k].addressSeed # DirectPlaceholder
        /\ accounts[k].suiAddress \notin RandomAddresses
        /\ accounts[k].addressSeed \notin RandomSeeds

(***************************************************************************)
(* C19: the identifier generated for an anonymous account is never the     *)
(* identifier of an email-based identity: a login or initialize-direct     *)
(* whose email the client supplied never completes on the account of an    *)
(* earlier initialize-direct that was called without an email.             *)
(***************************************************************************)
C19_AnonymousNamespaceDisjoint ==
    [][\A i \in Requests :
          (/\ Steps(i)
           /\ Done(i)'
           /\ req'[i].op \in LoginOps \cup DirectOps
           /\ ~req'[i].anonymous
           /\ req'[i].resp.success) =>
              ~\E j \in Requests \ {i} :
                  /\ Done(j)
                  /\ req[j].anonymous
                  /\ req[j].resp.success
                  /\ req[j].resp.address = req'[i].resp.address]_vars

(***************************************************************************)
(* C20: an account row is never removed and never changes the identity it  *)
(* belongs to: every row of a state is, in the next state, at the same     *)
(* place with the same provider, subject and email, whatever operation     *)
(* takes the step and whether it succeeds or fails.                        *)
(***************************************************************************)
C20_RowsNeverRemoved ==
    [][/\ Len(accounts') >= Len(accounts)
       /\ \A k \in 1..Len(accounts) :
             /\ accounts'[k].id = accounts[k].id
             /\ accounts'[k].provider = accounts[k].provider
             /\ accounts'[k].subjectId = accounts[k].subjectId
             /\ accounts'[k].email = accounts[k].email]_vars

\* an account exists after a login has succeeded and a refresh of its
\* address has failed on a storage call
C20_Witness ==
    /\ Len(accounts) > 0
    /\ \E i, j \in Requests :
          /\ i # j
          /\ Done(i) /\ Done(j)
          /\ req[i].op \in RefreshOps
          /\ req[i].storeFailed
          /\ req[i].address = accounts[1].suiAddress
          /\ req[j].op \in LoginOps
          /\ req[j].resp.success

(***************************************************************************)
(* C21: no step makes updatedAt of a stored row smaller, and a refresh     *)
(* that completes with success on an account whose last write lies in the  *)
(* past leaves that account with a later updatedAt.                        *)
(***************************************************************************)
C21_UpdatedAtAdvances ==
    [][/\ \A k \in 1..Len(accounts) :
             accounts'[k].updatedAt >= accounts[k].updatedAt
       /\ \A i \in Requests :
             (/\ Steps(i)
              /\ Done(i)'
              /\ req'[i].op \in RefreshOps
              /\ req'[i].resp.success) =>
                 \A k \in 1..Len(accounts) :
                     (/\ accounts[k].suiAddress = req'[i].address
                      /\ accounts[k].updatedAt < clock) =>
                         accounts'[k].updatedAt > accounts[k].updatedAt]_vars

(***************************************************************************)
(* C22: every completed operation has produced exactly one response, a     *)
(* structured body; when it failed the body says success = false, and no   *)
(* operation ends with an exception that leaves it.                        *)
(***************************************************************************)
C22_OneStructuredResponse ==
    \A i \in Requests :
        Done(i) =>
            /\ req[i].sent = 1
            /\ req[i].resp.kind = "json"

\* the handlers that answer POST /api/sui/zklogin
ZkLoginEndpointOps == {"manualZkLogin"}

(***************************************************************************)
(* C23: every success response of POST /api/sui/zklogin, whichever handler *)
(* the dispatch reaches, carries an address for which an account row       *)
(* exists in the store, as a response of handleZkLogin does.               *)
(***************************************************************************)
C23_EndpointReachesController ==
    \A i \in Requests :
        (Done(i) /\ req[i].op \in ZkLoginEndpointOps \cup {"login"}) =>
            (req[i].resp.success =>
                \E k \in 1..Len(accounts) :
                    accounts[k].suiAddress = req[i].resp.address)

(***************************************************************************)
(* C24: the authToken of every success payload of login and refresh        *)
(* contains the email of the account, the address and the subject, and its *)
(* address is the address of the same payload.                             *)
(***************************************************************************)
C24_AuthTokenComplete ==
    \A i \in Requests :
        (/\ Done(i)
         /\ req[i].op \in LoginOps \cup RefreshOps
         /\ req[i].resp.success) =>
            /\ req[i].resp.authToken.address = req[i].resp.address
            /\ req[i].resp.authToken.sub # None
            /\ req[i].resp.authToken.email # None

(***************************************************************************)
(* C25: no operation writes a userSalt or a raw identity token to the log, *)
(* and no failure response carries a salt.                                 *)
(***************************************************************************)
C25_NoSecretsLogged ==
    \A i \in Requests :
        /\ req[i].logged = {}
        /\ (Done(i) /\ ~req[i].resp.success) => req[i].resp.userSalt = Nil

\* the place of an await in its handler: later awaits have larger ranks
AwaitRank(pc) ==
    CASE pc = "idle" -> 0
      [] pc \in {"login_find", "dev_find", "gen_dev_find", "gen_find",
                 "refresh_find", "rzl_find", "idz_dev_find", "direct_epoch",
                 "idz_save", "prove_post", "gzp_post", "config_epoch",
                 "sgc_epoch"} -> 1
      [] pc \in {"login_epoch", "dev_save", "gen_dev_save", "gen_save",
                 "refresh_epoch", "rzl_epoch", "idz_dev_save", "direct_save",
                 "idz_epoch"} -> 2
      [] pc \in {"login_save", "gen_epoch", "refresh_save", "rzl_save"} -> 3
      [] OTHER -> 4

(***************************************************************************)
(* C26: connectToMongoDB calls db.connect() at most 5 times, each call     *)
(* makes at most 5 connection attempts with a delay that grows from one    *)
(* attempt to the next, and the startup always comes to an end; no other   *)
(* operation passes an awaited storage, epoch or prover call twice.        *)
(***************************************************************************)
C26_BoundedStartupRetry ==
    /\ [](\A i \in Requests :
             /\ req[i].startup.calls <= MaxRetries
             /\ req[i].startup.i < RetryCount
             /\ req[i].startup.attempts <= req[i].startup.calls * RetryCount
             /\ req[i].proverCalls <= 1)
    /\ [][\A i \in Requests :
             /\ (Steps(i) /\ req[i].pc = "cwr_wait") =>
                    req'[i].startup.delay > req[i].startup.delay
             /\ (Steps(i) /\ req'[i].op \notin StartupOps) =>
                    AwaitRank(req'[i].pc) > AwaitRank(req[i].pc)]_vars
    /\ \A i \in Requests :
          (req[i].op \in StartupOps) ~> Done(i)

\* the startup has given up after 5 calls of 5 attempts each, while a
\* login has failed on a storage call
C26_Witness ==
    /\ Done(1)
    /\ req[1].op \in StartupOps
    /\ ~req[1].startup.connected
    /\ req[1].startup.calls = MaxRetries
    /\ req[1].startup.attempts = MaxRetries * RetryCount
    /\ \E j \in Requests :
          Done(j) /\ req[j].op \in LoginOps /\ req[j].storeFailed

(***************************************************************************)
(* C27: in production a login writes its account only after the epoch      *)
(* window has been fetched (which follows claim parsing, salt resolution   *)
(* and derivation), and a login that ends in the step of its write ends    *)
(* with success.                                                           *)
(***************************************************************************)
C27_WriteAfterEpoch ==
    [][\A i \in Requests :
          (/\ production
           /\ Steps(i)
           /\ req'[i].op \in LoginOps
           /\ accounts' # accounts) =>
              /\ req[i].epoch \in {NetworkEpoch, FallbackEpoch}
              /\ Done(i)' => req'[i].resp.success]_vars

(***************************************************************************)
(* C28: two logins whose tokens have different subjects never complete     *)
(* with the same address and the same salt, whatever email or googleUserId *)
(* the requests carry.                                                     *)
(***************************************************************************)
C28_SubjectsSeparated ==
    \A i, j \in Requests :
        (/\ Done(i) /\ Done(j)
         /\ req[i].op \in LoginOps /\ req[j].op \in LoginOps
         /\ req[i].resp.success /\ req[j].resp.success
         /\ req[i].token.sub # req[j].token.sub) =>
            ~(/\ req[i].resp.address = req[j].resp.address
              /\ req[i].resp.userSalt = req[j].resp.userSalt)

(***************************************************************************)
(* C29: when a login, refresh or initialize-direct completes with success, *)
(* the store holds a row whose address and salt are those of the response. *)
(***************************************************************************)
C29_SuccessHasRow ==
    [][\A i \in Requests :
          (/\ Steps(i)
           /\ Done(i)'
           /\ req'[i].op \in LoginOps \cup RefreshOps \cup DirectOps
                                 \cup ZkLoginEndpointOps
           /\ req'[i].resp.success) =>
              \E k \in 1..Len(accounts') :
                  /\ accounts'[k].suiAddress = req'[i].resp.address
                  /\ accounts'[k].userSalt = req'[i].resp.userSalt]_vars

(***************************************************************************)
(* C30: a refresh with an address that a completed login or                *)
(* initialize-direct returned, sent without token or with the token of     *)
(* that request, passes the validation, finds the account and returns the  *)
(* same address and the same salt.                                         *)
(***************************************************************************)
C30_LoginRefreshRoundTrip ==
    [][\A i, j \in Requests :
          (/\ i # j
           /\ Done(i)
           /\ req[i].op \in LoginOps \cup DirectOps \cup ZkLoginEndpointOps
           /\ req[i].resp.success
           /\ Steps(j)
           /\ Done(j)'
           /\ req'[j].op \in RefreshOps
           /\ req'[j].address = req[i].resp.address
           /\ req'[j].token \in {NoToken, req[i].token}) =>
              /\ req'[j].resp.success
              /\ req'[j].resp.address = req[i].resp.address
              /\ req'[j].resp.userSalt = req[i].resp.userSalt]_vars

(***************************************************************************)
(* C31: in development, after a login with an email has succeeded, the     *)
(* row found by that email holds the address, salt and seed derived from   *)
(* that email, and two succeeded logins whose emails have different        *)
(* digests have different rows.                                            *)
(***************************************************************************)
C31_DevRowsByEmail ==
    ~production =>
        /\ \A i \in Requests :
              (Done(i) /\ req[i].op \in LoginOps /\ req[i].resp.success) =>
                  \E k \in RowsOfEmail(req[i].userEmail) :
                      /\ accounts[k].suiAddress =
                             GenerateDeterministicAddress(req[i].userEmail)
                      /\ accounts[k].userSalt = DevSalt(req[i].userEmail)
                      /\ accounts[k].addressSeed = DevSeed(req[i].userEmail)
        /\ \A i, j \in Requests :
              (/\ Done(i) /\ Done(j)
               /\ req[i].op \in LoginOps /\ req[j].op \in LoginOps
               /\ req[i].resp.success /\ req[j].resp.success
               /\ Sha256(req[i].userEmail) # Sha256(req[j].userEmail)) =>
                  RowsOfEmail(req[i].userEmail)
                      \cap RowsOfEmail(req[j].userEmail) = {}

(***************************************************************************)
(* C32: an exercise operation that arrives while mongoDbConnected is not   *)
(* true ends at once with 503 and success=false, without a store call and  *)
(* without a change of the store; a store call is issued and the store is  *)
(* changed only while the setting is true.                                 *)
(***************************************************************************)
ExerciseOps ==
    {"findAll", "create", "findByUser", "getPerformanceByType", "getSummary"}

C32_ExerciseNeedsConnection ==
    [][\A i \in Requests :
          (Steps(i) /\ req'[i].op \in ExerciseOps) =>
              /\ (req[i].pc = "idle" /\ mongoDbConnected # FlagTrue) =>
                    /\ Done(i)'
                    /\ req'[i].resp.status = 503
                    /\ ~req'[i].resp.success
                    /\ exercises' = exercises
              /\ req'[i].pc \in ExerciseStorePcs =>
                    mongoDbConnected = FlagTrue
              /\ exercises' # exercises => mongoDbConnected = FlagTrue]_vars

\* an exercise operation was refused with 503 while the startup had not
\* connected yet
C32_Witness ==
    \E i \in Requests :
        /\ Done(i) /\ req[i].op \in ExerciseOps
        /\ req[i].resp.status = 503
        /\ mongoDbConnected # FlagTrue

(***************************************************************************)
(* C33: whenever mongoDbConnected is true the connection to the store is   *)
(* up, and a health request reports "ok" / "connected" only while the      *)
(* connection is up.                                                       *)
(***************************************************************************)
C33_FlagAccurate ==
    /\ [](mongoDbConnected = FlagTrue => connection = "connected")
    /\ [][\A i \in Requests :
             (/\ Steps(i)
              /\ req'[i].op = "health"
              /\ req'[i].out.status = "ok") =>
                 connection = "connected"]_vars

(***************************************************************************)
(* C34: one call of connectWithRetry makes at most retryCount attempts;    *)
(* it returns at the first attempt that succeeds and attempts nothing      *)
(* after it; every attempt but the first follows a wait, and no wait       *)
(* follows the last attempt; when the last attempt fails the call throws   *)
(* the error of that attempt.                                              *)
(***************************************************************************)
C34_ConnectWithRetry ==
    /\ [](\A i \in Requests :
             req[i].pc \in {"cwr_connect", "cwr_wait"} =>
                 req[i].startup.i < RetryCount)
    /\ [][\A i \in Requests :
             LET st == req[i].startup
                 st2 == req'[i].startup
             IN  /\ st.connected => st2.attempts = st.attempts
                 /\ (st2.connected /\ ~st.connected) =>
                       /\ req[i].pc = "cwr_connect"
                       /\ Done(i)'
                       /\ st2.thrown = 0
                 /\ (req'[i].pc = "cwr_connect" /\ st2.i > 0 /\ Steps(i)) =>
                       req[i].pc = "cwr_wait"
                 /\ (req'[i].pc = "cwr_wait" /\ Steps(i)) =>
                       /\ req[i].pc = "cwr_connect"
                       /\ st2.attempts = st.attempts + 1
                       /\ st.i < RetryCount - 1
                 /\ (req'[i].pc = "ctm_catch" /\ Steps(i)) =>
                       /\ req[i].pc = "cwr_connect"
                       /\ st.i = RetryCount - 1
                       /\ st2.attempts = st.attempts + 1
                       /\ st2.thrown = st2.attempts]_vars

\* a call of connectWithRetry has failed retryCount times and has thrown
C34_Witness ==
    \E i \in Requests :
        /\ req[i].pc = "ctm_catch"
        /\ req[i].startup.i = RetryCount - 1
        /\ req[i].startup.thrown # 0

(***************************************************************************)
(* C35: errorHandler answers a ValidationError with the error's own status *)
(* and its details; any other error whose message contains 'zkLogin' with  *)
(* 400; any other whose message contains 'transaction' or 'Sui' with 502;  *)
(* every other with 500, with the generic text in production and the       *)
(* error's message elsewhere; each call sends one response, success=false. *)
(***************************************************************************)
C35_ErrorClassified ==
    \A i \in Requests :
        (Done(i) /\ req[i].op = "errorHandler") =>
            LET err == req[i].arg.err
                msg == err.message
                has(w) == msg.present /\ msg[w]
            IN  /\ req[i].sent = 1
                /\ ~req[i].resp.success
                /\ req[i].resp.kind = "json"
                /\ IF err.validation
                       THEN /\ req[i].resp.status = err.statusCode
                            /\ req[i].resp.error = "Validation Error"
                            /\ req[i].out.details
                   ELSE IF has("zkLogin")
                       THEN /\ req[i].resp.status = 400
                            /\ req[i].out.message = msg
                   ELSE IF has("transaction") \/ has("Sui")
                       THEN /\ req[i].resp.status = 502
                            /\ req[i].out.message = msg
                   ELSE /\ req[i].resp.status = 500
                        /\ production => req[i].out.message = "generic"
                        /\ ~production => req[i].out.message = msg

\* a ValidationError whose message contains 'zkLogin' was answered, and so
\* was an error without any of the words
C35_Witness ==
    \E i, j \in Requests :
        /\ Done(i) /\ req[i].op = "errorHandler"
        /\ req[i].arg.err.validation
        /\ req[i].arg.err.message.zkLogin
        /\ req[i].resp.status = 422
        /\ Done(j) /\ req[j].op = "errorHandler"
        /\ req[j].resp.status = 500

(***************************************************************************)
(* C36: an updateTransactionStatus that finds its record puts the current  *)
(* time into finalizedAt if the new status is 'success' or 'failure' and   *)
(* leaves finalizedAt alone otherwise; with an unknown digest it returns   *)
(* null and the collection is unchanged; and no transaction helper ends    *)
(* with an exception: after a rejected store call it returns null or the   *)
(* empty page.                                                             *)
(***************************************************************************)
TxOps == {"logTransaction", "updateTransactionStatus",
          "getTransactionHistory"}

====
